---- MODULE Spec2Model ----
(***************************************************************************)
(* Trade-execution client (MagicBlockClient) of the paper-trading          *)
(* frontend.  Every public operation is an async function; the model has   *)
(* one action per await: the action is the resolution of the pending       *)
(* request together with the synchronous code that runs up to the next     *)
(* await.  The network, the signer and the ledger are the environment.     *)
(* Amounts are integers: quote currency in 1e-6 units, base asset in 1e-9. *)
(***************************************************************************)
EXTENDS Integers, Sequences, FiniteSets, TLC

VARIABLES connection, connectedWallet, sessionWallet, entityPda,
          competitionEntity, ledger, calls,
          storage, keysGenerated, sessionCalls,
          chain, poll, codec,
          walletStore, walletManager, page

vars == <<connection, connectedWallet, sessionWallet, entityPda,
          competitionEntity, ledger, calls,
          storage, keysGenerated, sessionCalls,
          chain, poll, codec,
          walletStore, walletManager, page>>

\* what the read operations find on the network (chain), the background
\* balance poll of requestAirdrop (poll) and the value under conversion
\* (codec)
\* the wallet store with its manager and the dashboard page
uiVars == <<walletStore, walletManager, page>>

readVars == <<chain, poll, codec, uiVars>>

\* fields of the client, the browser's local storage and the calls of
\* initializeSessionWallet that are in flight; with them everything the
\* trading operations leave alone
clientVars == <<connection, connectedWallet, sessionWallet, entityPda,
                competitionEntity, storage, keysGenerated, sessionCalls,
                readVars>>

(***************************************************************************)
(* Program constants                                                       *)
(***************************************************************************)
MAGICBLOCK_RPC == "rollup"

SOLANA_RPC == "base"

TokenInScale == 1000000

TokenOutScale == 1000000000

\* epsilon = 0.01 quote units, in 1e-6 units
EpsilonScaled == 10000

TRADING_PAIRS == {"SOL", "BTC", "ETH", "AVAX", "LINK"}

(***************************************************************************)
(* Bounds of the model                                                     *)
(***************************************************************************)
MaxPositions == 1

\* session keys one browser generates
MaxKeys == 2

\* trading-pair symbols a caller passes (one listed, one not listed)
PairInputs == {"SOL", "DOGE"}

\* prices in whole quote units
PriceInputs == {200}

\* trade sizes in 1e-6 quote units: 50.00 and 100.01
SizeInputs == {50000000, 100010000}

\* openPosition inputs: <<direction, price, size, takeProfit, stopLoss>>,
\* take-profit and stop-loss in whole quote units, 0 = unset
OpenInputs == {<<"LONG", 200, 50000000, 250, 150>>,
               <<"SHORT", 200, 50000000, 0, 0>>,
               <<"LONG", 200, 100010000, 0, 150>>}

\* token_in balances held by the ledger: 30.00, 50.00, 100.005
TokenInBalances == {30000000, 50000000, 100005000}

\* token_out balances held by the ledger: 0.5 (sizes 50.00 and 100.01 at
\* price 200 need 0.25 and 0.50005)
TokenOutBalances == {500000000}

\* base-asset amounts passed to sellSpot, in 1e-9 units
TokenAmountInputs == {500000000}

(***************************************************************************)
(* Values                                                                  *)
(***************************************************************************)
\* signer: the key the wallet's signTransaction signs with
NoWallet == [src |-> "none", publicKey |-> "none", canSign |-> FALSE,
             signer |-> "none"]

NoAdapter == [present |-> FALSE, connected |-> FALSE, hasKey |-> FALSE,
              canSign |-> FALSE]

\* a connected adapter with or without the signTransaction capability
Adapters == {NoAdapter} \cup
            [present : {TRUE}, connected : {TRUE}, hasKey : {TRUE},
             canSign : BOOLEAN]

\* adapters the wallet store can hand over: also one that is not connected
\* and one that has no public key yet
AdapterInputs == Adapters \cup
                 [present : {TRUE}, connected : BOOLEAN, hasKey : BOOLEAN,
                  canSign : {TRUE}]

NoPayload == [selector |-> "none", f1 |-> 0, f2 |-> 0, f3 |-> 0, f4 |-> 0]

NoArgs == [pair |-> "none", direction |-> "none", action |-> "none",
           price |-> 0, size |-> 0, takeProfit |-> 0, stopLoss |-> 0]

NoTx == [payload |-> NoPayload, positionId |-> -1, feePayer |-> "none",
         signedBy |-> "none"]

IdleCall == [op |-> "none", pc |-> "idle", att |-> "none",
             wallet |-> NoWallet, args |-> NoArgs,
             tokenInBalance |-> -1, tokenOutBalance |-> -1,
             totalPositions |-> -1, tx |-> NoTx,
             result |-> "none", ret |-> "none", err |-> "none",
             firstErr |-> "none", accepted |-> 0, trace |-> <<>>,
             list |-> {}]

\* byte lengths of the records of the trading program
UserAccountSize == 80

PositionAccountSize == 104

\* accounts of the trading program a scan can return: position records of
\* the external wallet (active, closed), of the session key and of another
\* owner, a user record, a record of another length; status 0 = Active
ProgramAccountInputs ==
    {[id |-> "p1", len |-> PositionAccountSize, owner |-> "extKey", status |-> 0],
     [id |-> "p2", len |-> PositionAccountSize, owner |-> "extKey", status |-> 1],
     [id |-> "p3", len |-> PositionAccountSize, owner |-> "otherKey", status |-> 0],
     [id |-> "p4", len |-> PositionAccountSize, owner |-> "sessKey", status |-> 0],
     [id |-> "u1", len |-> UserAccountSize, owner |-> "extKey", status |-> 0],
     [id |-> "x1", len |-> 112, owner |-> "extKey", status |-> 0]}

\* what the network holds besides the user account of the ledger:
\* userData and competition tell whether the account bytes have the full
\* layout ("ok"), are shorter ("short") or the account is absent
DefaultChain ==
    [userData |-> "ok", competition |-> "ok",
     accounts |-> {a \in ProgramAccountInputs : a.id \in {"p1", "p2", "u1"}},
     components |-> {"mb1"}, tradingAccounts |-> {"ta1", "ta2"},
     lamports |-> 0]

\* the loop of the balance poll runs while i < MaxPollReads
MaxPollReads == 10

\* milliseconds the poll waits before each balance read
PollDelay == 3000

\* a balance poll as setTimeout has scheduled it: the loop counter, the
\* reads and delays done so far, the length of the last delay and whether
\* a read has shown a positive balance
ScheduledPoll ==
    [pc |-> "scheduled", i |-> 0, reads |-> 0, delays |-> 0,
     waited |-> PollDelay, positive |-> FALSE]

\* no poll has been scheduled
IdlePoll == <<>>

NoCodec == [phase |-> "none"]

\* adapters the wallet manager constructs
Wallets == {"Phantom", "Solflare"}

\* wallet calls the manager can have in flight
MaxWalletCalls == 2

\* value the wallet store is created with
InitialWalletStore ==
    [adapter |-> "none", connected |-> FALSE, connecting |-> FALSE,
     publicKey |-> "none", wallet |-> "none"]

IdleWalletCall == [op |-> "none", pc |-> "idle", adapter |-> "none",
                   auto |-> FALSE, result |-> "none"]

\* the manager after its constructor; with it the state of the adapters
\* (connected, listeners registered by connect) and the localStorage item
\* 'solana-wallet'
NewWalletManager ==
    [selectedWallet |-> "none",
     connected |-> [a \in Wallets |-> FALSE],
     listeners |-> [a \in Wallets |-> FALSE],
     saved |-> "none",
     calls |-> [k \in 1..MaxWalletCalls |-> IdleWalletCall]]

\* a JavaScript number of the dashboard: a finite amount in hundredths,
\* NaN, Infinity or -Infinity
Num(v) == [k |-> "finite", v |-> v]

NaN == [k |-> "NaN", v |-> 0]

Infinity == [k |-> "Infinity", v |-> 0]

NegInfinity == [k |-> "-Infinity", v |-> 0]

\* leaderboardData of the page as it is declared
InitialLeaderboard ==
    << [rank |-> 1, address |-> "0x7a2e9f...3f4b", pnl |-> Num(1245000),
        trades |-> 47],
       [rank |-> 2, address |-> "0x9b1c4a...8c2d", pnl |-> Num(823050),
        trades |-> 32],
       [rank |-> 3, address |-> "0x4d5f8e...1a9c", pnl |-> Num(567025),
        trades |-> 28],
       [rank |-> 4, address |-> "0x2c8b3f...7e1a", pnl |-> Num(312000),
        trades |-> 19],
       [rank |-> 5, address |-> "0x6f2a9d...4c8b", pnl |-> Num(-145075),
        trades |-> 15] >>

\* the page after its script has run: the price of the selected symbol,
\* the positions, the totals, the leaderboard, the callbacks setTimeout
\* holds, Date.now(), and for the properties the number of positions
\* opened and the positions closePosition has counted
NewPage ==
    [price |-> 0, activePositions |-> <<>>, totalPnL |-> Num(0),
     totalTrades |-> 0, winningTrades |-> 0,
     leaderboardData |-> InitialLeaderboard, timers |-> <<>>, now |-> 0,
     opened |-> 0, counted |-> <<>>]

\* floor(a * m / d) without an intermediate product a * m
MulDivFloor(a, m, d) == (a \div d) * m + ((a % d) * m) \div d

(***************************************************************************)
(* Wallet selection and client fields                                      *)
(***************************************************************************)
\* mutation: the session key is preferred to the external wallet
CurrentWalletOf_Mut(a, s) ==
    IF s # "none"
    THEN [src |-> "session", publicKey |-> s, canSign |-> TRUE, signer |-> s]
    ELSE IF a.present /\ a.connected /\ a.hasKey
         THEN [src |-> "connected", publicKey |-> "extKey",
               canSign |-> a.canSign,
               signer |-> IF a.canSign THEN "extKey" ELSE "none"]
         ELSE NoWallet

\* the wallet getCurrentWallet returns with adapter a and session key s in
\* the client fields
CurrentWalletOf(a, s) ==
    IF a.present /\ a.connected /\ a.hasKey
    THEN [src |-> "connected", publicKey |-> "extKey", canSign |-> a.canSign,
          signer |-> IF a.canSign THEN "extKey" ELSE "none"]
    ELSE IF s # "none"
         THEN [src |-> "session", publicKey |-> s, canSign |-> TRUE,
               signer |-> s]
         ELSE NoWallet

getCurrentWallet == CurrentWalletOf(connectedWallet, sessionWallet)

\* FindEntityPda over the public key of the wallet w
FindEntityPda(w) ==
    CASE w.publicKey = "extKey" -> "entity_extKey"
      [] w.publicKey = "sessKey" -> "entity_sessKey"
      [] OTHER -> "entity_otherKey"

\* initializeEntity run with adapter a and session key s in the fields
initializeEntity(a, s) ==
    IF CurrentWalletOf(a, s) = NoWallet
    THEN UNCHANGED <<entityPda, competitionEntity>>
    ELSE /\ entityPda' = FindEntityPda(CurrentWalletOf(a, s))
         /\ competitionEntity' = "competition"

setConnectedWallet(w) ==
    /\ connectedWallet' = w
    /\ IF w.present /\ w.connected /\ w.hasKey
       THEN initializeEntity(w, sessionWallet)
       ELSE UNCHANGED <<entityPda, competitionEntity>>
    /\ UNCHANGED <<connection, sessionWallet, ledger, calls,
                   storage, keysGenerated, sessionCalls, readVars>>

\* connectedWallet refers to the adapter object of the wallet library, and
\* getCurrentWallet reads its `connected` and `publicKey` at each call: the
\* library connects and disconnects the adapter without telling the client
AdapterChange ==
    /\ connectedWallet.present
    /\ \E w \in AdapterInputs :
         /\ w.present
         /\ w # connectedWallet
         /\ connectedWallet' = w
    /\ UNCHANGED <<connection, sessionWallet, entityPda, competitionEntity,
                   ledger, calls, storage, keysGenerated, sessionCalls,
                   readVars>>

\* localStorage item 'magicblock_session_wallet': "none" when absent,
\* "corrupt" when it does not parse to a secret key, otherwise the key
Loadable(item) == item \notin {"none", "corrupt"}

\* Keypair.generate(): the n-th key generated in this browser
NewKey(n) ==
    CASE n = 0 -> "sessKey"
      [] n = 1 -> "sessKey2"
      [] OTHER -> "sessKey3"

\* mutation: the stored key is ignored
SessionKeyFor_Mut(item, n) == NewKey(n)

\* the key initializeSessionWallet ends up with: the stored one when it
\* loads, a new one otherwise
SessionKeyFor(item, n) == IF Loadable(item) THEN item ELSE NewKey(n)

\* initializeSessionWallet up to its first suspension: load or generate,
\* store a generated key, initializeEntity
SessionWalletLoaded ==
    LET key == SessionKeyFor(storage, keysGenerated)
    IN /\ key = storage \/ keysGenerated < MaxKeys
       /\ sessionWallet' = key
       /\ storage' = key
       /\ keysGenerated' = IF key = storage THEN keysGenerated
                           ELSE keysGenerated + 1
       /\ initializeEntity(connectedWallet, key)

\* one whole call of initializeSessionWallet; its return value is not kept
initializeSessionWallet ==
    /\ SessionWalletLoaded
    /\ UNCHANGED <<connection, connectedWallet, ledger, calls, sessionCalls,
                   readVars>>

IdleSessionCall == [pc |-> "idle", ret |-> "none"]

\* call k of initializeSessionWallet runs up to `await this.initializeEntity()`
initializeSessionWalletCall(k) ==
    /\ sessionCalls[k].pc \in {"idle", "done"}
    /\ SessionWalletLoaded
    /\ sessionCalls' = [sessionCalls EXCEPT ![k] =
                          [pc |-> "initializeEntity", ret |-> "none"]]
    /\ UNCHANGED <<connection, connectedWallet, ledger, calls, readVars>>

\* call k resumes: setupProvider, return this.sessionWallet
InitializeSessionWalletReturns(k) ==
    /\ sessionCalls[k].pc = "initializeEntity"
    /\ sessionCalls' = [sessionCalls EXCEPT ![k] =
                          [pc |-> "done", ret |-> sessionWallet]]
    /\ UNCHANGED <<connection, connectedWallet, sessionWallet, entityPda,
                   competitionEntity, ledger, calls, storage, keysGenerated,
                   readVars>>

(***************************************************************************)
(* Instruction payloads                                                    *)
(***************************************************************************)
\* priceScaled = floor(price * 1e6), price in whole quote units
PriceScaled(price) == price * TokenInScale

\* floor((size / price) * 1e9), size in 1e-6 quote units
AmountTokenOut(size, price) == MulDivFloor(size, TokenOutScale \div TokenInScale, price)

OpenSelector(direction) ==
    IF direction = "LONG" THEN "global:open_long_position"
    ELSE "global:open_short_position"

\* instruction data built by openMagicBlockPosition
MagicBlockPayload(a) ==
    [selector |-> OpenSelector(a.direction),
     f1 |-> AmountTokenOut(a.size, a.price),
     f2 |-> PriceScaled(a.price),
     f3 |-> IF a.takeProfit # 0 THEN PriceScaled(a.takeProfit) ELSE 0,
     f4 |-> IF a.stopLoss # 0 THEN PriceScaled(a.stopLoss) ELSE 0]

\* mutation: the fallback encodes the quote amount instead of the base amount
DirectPayload_Mut(a) ==
    [selector |-> OpenSelector(a.direction),
     f1 |-> a.size,
     f2 |-> PriceScaled(a.price),
     f3 |-> IF a.takeProfit # 0 THEN PriceScaled(a.takeProfit) ELSE 0,
     f4 |-> IF a.stopLoss # 0 THEN PriceScaled(a.stopLoss) ELSE 0]

\* instruction data built by openDirectPosition
DirectPayload(a) ==
    [selector |-> OpenSelector(a.direction),
     f1 |-> AmountTokenOut(a.size, a.price),
     f2 |-> PriceScaled(a.price),
     f3 |-> IF a.takeProfit # 0 THEN PriceScaled(a.takeProfit) ELSE 0,
     f4 |-> IF a.stopLoss # 0 THEN PriceScaled(a.stopLoss) ELSE 0]

\* buySpot: costInTokenIn = floor(usdtAmount * 1e6)
BuySpotPayload(a) ==
    [selector |-> "global:buy", f1 |-> a.size, f2 |-> PriceScaled(a.price),
     f3 |-> 0, f4 |-> 0]

\* sellSpot: valueInTokenIn = floor(tokenAmount * currentPrice * 1e6),
\* tokenAmount in 1e-9 base units
SellSpotPayload(a) ==
    [selector |-> "global:sell",
     f1 |-> MulDivFloor(a.size, a.price, TokenOutScale \div TokenInScale),
     f2 |-> PriceScaled(a.price), f3 |-> 0, f4 |-> 0]

SpotTradePayload(a) ==
    [selector |-> IF a.action = "BUY" THEN "global:buy" ELSE "global:sell",
     f1 |-> AmountTokenOut(a.size, a.price),
     f2 |-> PriceScaled(a.price), f3 |-> 0, f4 |-> 0]

CloseDirectPayload(a) ==
    [selector |-> "global:close_position", f1 |-> PriceScaled(a.price),
     f2 |-> 0, f3 |-> 0, f4 |-> 0]

InitializeAccountPayload(a) ==
    [selector |-> "global:initialize_account", f1 |-> 0, f2 |-> 0,
     f3 |-> 0, f4 |-> 0]

\* transaction built by ApplySystem for the Bolt systems
ApplySystemPayload(op) ==
    [selector |-> op, f1 |-> 0, f2 |-> 0, f3 |-> 0, f4 |-> 0]

PayloadOf(r) ==
    CASE r.op = "openPosition" /\ r.att = "rollup" -> MagicBlockPayload(r.args)
      [] r.op = "openPosition" /\ r.att = "fallback" -> DirectPayload(r.args)
      [] r.op = "buySpot" -> BuySpotPayload(r.args)
      [] r.op = "sellSpot" -> SellSpotPayload(r.args)
      [] r.op = "executeSpotTrade" -> SpotTradePayload(r.args)
      [] r.op = "closeDirectPosition" -> CloseDirectPayload(r.args)
      [] r.op = "initializeAccount" -> InitializeAccountPayload(r.args)
      [] OTHER -> ApplySystemPayload(r.op)

(***************************************************************************)
(* Steps of a call                                                         *)
(***************************************************************************)
\* the call issues request ev on the client's connection and suspends
Issue(r, ev) ==
    [r EXCEPT !.pc = ev,
              !.trace = Append(@, [ev |-> ev, att |-> r.att,
                                   path |-> connection, res |-> "pending",
                                   payload |-> r.tx.payload])]

\* the pending request of the call resolved with res
Resolved(r, res) == [r EXCEPT !.trace[Len(r.trace)].res = res]

Return(r, v) == [r EXCEPT !.pc = "done", !.result = "ok", !.ret = v]

\* the call returns the list (or the map) l
ReturnList(r, l) ==
    [r EXCEPT !.pc = "done", !.result = "ok", !.ret = "list", !.list = l]

\* entries fetchPositions pushes for the position components of the entity
MagicBlockEntries(components) ==
    {[type |-> "magicblock", pubkey |-> id] : id \in components}

\* the filter of fetchPositions over the accounts of the trading program:
\* the data length of a position record and the owner field
directPositions(accounts, publicKey) ==
    {a \in accounts : a.len = PositionAccountSize /\ a.owner = publicKey}

\* mutation: closed positions are listed as well
DirectEntries_Mut(accounts, publicKey) ==
    {[type |-> "direct", pubkey |-> a.id] :
       a \in directPositions(accounts, publicKey)}

\* entries fetchPositions pushes for the filtered accounts: the active ones
DirectEntries(accounts, publicKey) ==
    {[type |-> "direct", pubkey |-> a.id] :
       a \in {b \in directPositions(accounts, publicKey) : b.status = 0}}

\* fetchPositions after the scan of the position components: a failure is
\* caught and logged, then the accounts of the trading program are scanned
AfterComponentAccounts(r, res) ==
    Issue([r EXCEPT !.att = "single",
                    !.list = IF res = "ok"
                             THEN MagicBlockEntries(chain.components)
                             ELSE {}],
          "getProgramAccounts")

\* code after `await this.connection.getProgramAccounts(...)`
AfterProgramAccounts(r, res) ==
    CASE r.op = "fetchPositions" /\ r.att = "entity" ->
           AfterComponentAccounts(r, res)
      [] r.op = "fetchPositions" /\ r.att # "entity" ->
           ReturnList(r, IF res = "ok"
                         THEN r.list \cup DirectEntries(chain.accounts,
                                                        r.wallet.publicKey)
                         ELSE r.list)
      [] OTHER ->
           ReturnList(r, IF res = "ok"
                         THEN {[address |-> id] : id \in chain.tradingAccounts}
                         ELSE {})

\* fetchCompetitionData after the read of the competition component: a
\* missing account, a failed read and bytes the parse runs out of all give
\* null
AfterCompetitionInfo(r, res) ==
    IF res = "ok" THEN Return(r, "competitionData") ELSE Return(r, "null")

\* head of the poll loop in poll record q: the next delay or the end
PollLoop(q) ==
    IF q.i < MaxPollReads THEN [q EXCEPT !.pc = "delay"]
    ELSE [q EXCEPT !.pc = "done"]

\* mutation: the poll goes on after a positive balance
AfterPollBalance_Mut(q, res, balance) ==
    IF res = "failed" THEN [q EXCEPT !.pc = "done"]
    ELSE PollLoop([q EXCEPT !.i = @ + 1, !.positive = @ \/ balance > 0])

\* the poll after `await this.connection.getBalance(...)`: a rejection
\* leaves the callback, a positive balance breaks the loop
AfterPollBalance(q, res, balance) ==
    IF res = "failed" THEN [q EXCEPT !.pc = "done"]
    ELSE IF balance > 0 THEN [q EXCEPT !.pc = "done", !.positive = TRUE]
    ELSE PollLoop([q EXCEPT !.i = @ + 1])

\* code after `await this.connection.getBalance(...)`
AfterBalance(r, res) ==
    IF res = "failed"
    THEN [r EXCEPT !.pc = "done", !.result = "error", !.err = "NetworkError"]
    ELSE Return(r, IF chain.lamports > 0 THEN "balance" ELSE "0")

\* getAccountStatus after checkAccountInitialized of one pair: the answer is
\* stored under the pair index and the next pair is checked
AfterAccountInitialized(r, res) ==
    LET status == r.list \cup {<<Cardinality(r.list), res \in {"ok", "short"}>>}
    IN IF Cardinality(status) < Cardinality(TRADING_PAIRS)
       THEN Issue([r EXCEPT !.list = status], "getAccountInfo")
       ELSE ReturnList(r, status)

\* first statements of openDirectPosition: the account-info read
openDirectPosition(r) ==
    Issue([r EXCEPT !.att = "fallback", !.tx = NoTx, !.tokenInBalance = -1,
                    !.tokenOutBalance = -1, !.totalPositions = -1],
          "getAccountInfo")

\* an exception of kind k leaves the function that is running; openPosition
\* catches whatever openMagicBlockPosition throws and calls
\* openDirectPosition, everything else reaches the caller
Throw(r, k) ==
    IF r.op = "openPosition" /\ r.att = "rollup"
    THEN openDirectPosition([r EXCEPT !.firstErr = k])
    ELSE [r EXCEPT !.pc = "done", !.result = "error", !.err = k]

\* signature carried by the transaction the call signed in this attempt
TxSignature(r) ==
    CASE r.att = "rollup" -> "sig_rollup"
      [] r.att = "fallback" -> "sig_fallback"
      [] OTHER -> "sig_single"

\* the call invokes getUserAccountData: without a current wallet it returns
\* null before any network call, otherwise it reads the user account
IssueUserAccountData(r) ==
    IF getCurrentWallet = NoWallet
    THEN [r EXCEPT !.pc = "getUserAccountData",
                   !.trace = Append(@, [ev |-> "getUserAccountData",
                                        att |-> r.att, path |-> "none",
                                        res |-> "pending",
                                        payload |-> r.tx.payload])]
    ELSE Issue(r, "getUserAccountData")

BoltOps == {"closePosition", "joinCompetition", "settleCompetition"}

\* mutation: the fallback derives the address of the next position
BuildTx_Mut(r) ==
    [r EXCEPT !.tx = [payload |-> PayloadOf(r),
                      positionId |-> IF r.att = "fallback"
                                     THEN r.totalPositions + 1
                                     ELSE r.totalPositions,
                      feePayer |-> r.wallet.publicKey,
                      signedBy |-> "none"]]

\* instruction and transaction assembled by the running function
BuildTx(r) ==
    [r EXCEPT !.tx = [payload |-> PayloadOf(r),
                      positionId |-> r.totalPositions,
                      feePayer |-> r.wallet.publicKey,
                      signedBy |-> "none"]]

\* balance checks; balances and sizes in 1e-6 quote units
MagicBlockBalanceOk(tokenIn, a) == ~(tokenIn < a.size - EpsilonScaled)

DirectBalanceOk(tokenIn, a) == ~(tokenIn < a.size)

\* mutation: the affordability boundary is exclusive
SpotBalanceOk_Mut(tokenIn, tokenOut, a) ==
    IF a.action = "BUY" THEN ~(tokenIn <= a.size)
    ELSE ~(tokenOut <= AmountTokenOut(a.size, a.price))

SpotBalanceOk(tokenIn, tokenOut, a) ==
    IF a.action = "BUY" THEN ~(tokenIn < a.size)
    ELSE ~(tokenOut < AmountTokenOut(a.size, a.price))

\* code after `await this.getUserAccountData(pairIndex)`
AfterUserAccountData(r, found, tokenIn, tokenOut) ==
    LET r1 == [r EXCEPT !.tokenInBalance = IF found THEN tokenIn ELSE -1,
                        !.tokenOutBalance = IF found THEN tokenOut ELSE -1]
    IN IF r.op = "getUserAccountData"
       THEN Return(r1, IF found THEN "accountData" ELSE "null")
       ELSE IF ~found THEN Throw(r1, "AccountNotInitialized")
       ELSE CASE r.op = "openPosition" /\ r.att = "rollup" ->
                   IF MagicBlockBalanceOk(tokenIn, r.args)
                   THEN Issue(r1, "getAccountInfo")
                   ELSE Throw(r1, "InsufficientBalance")
              [] r.op = "openPosition" /\ r.att = "fallback" ->
                   IF DirectBalanceOk(tokenIn, r.args)
                   THEN Issue(BuildTx(r1), "getLatestBlockhash")
                   ELSE Throw(r1, "InsufficientBalance")
              [] OTHER ->
                   IF SpotBalanceOk(tokenIn, tokenOut, r.args)
                   THEN Issue(BuildTx(r1), "getLatestBlockhash")
                   ELSE Throw(r1, "InsufficientBalance")

\* mutation: an existing account is initialized again
AfterExistingAccount_Mut(r, res) == Issue(r, "getConfigInfo")

\* initializeAccount after the read of the user account
AfterExistingAccount(r, res) ==
    IF res = "null" THEN Issue(r, "getConfigInfo")
    ELSE Return(r, "account_already_exists")

\* code after `await this.connection.getAccountInfo(...)` of the user
\* account (position account in closeDirectPosition)
AfterAccountInfo(r, res, total) ==
    IF r.op = "checkAccountInitialized"
    THEN Return(r, IF res \in {"ok", "short"} THEN "true" ELSE "false")
    ELSE IF r.op = "getAccountStatus" THEN AfterAccountInitialized(r, res)
    ELSE IF res = "failed" THEN Throw(r, "NetworkError")
    ELSE CASE r.op = "openPosition" /\ r.att = "rollup" ->
                IF res = "null" THEN Throw(r, "AccountNotInitialized")
                ELSE IF res = "short" THEN Throw(r, "RangeError")
                ELSE Issue(BuildTx([r EXCEPT !.totalPositions = total]),
                           "getLatestBlockhash")
           [] r.op = "openPosition" /\ r.att = "fallback" ->
                IF res = "null" THEN Throw(r, "AccountNotInitialized")
                ELSE IssueUserAccountData([r EXCEPT !.totalPositions = total])
           [] r.op = "executeSpotTrade" ->
                IF res = "null" THEN Throw(r, "AccountNotInitialized")
                ELSE IssueUserAccountData(r)
           [] r.op = "closeDirectPosition" ->
                IF res = "null" THEN Throw(r, "PositionNotFound")
                ELSE Issue(BuildTx(r), "getLatestBlockhash")
           [] OTHER -> AfterExistingAccount(r, res)

\* initializeAccount after the read of the config account
AfterConfigInfo(r, res) ==
    CASE res = "failed" -> Throw(r, "NetworkError")
      [] res = "null" -> Throw(r, "ConfigNotInitialized")
      [] OTHER -> Issue(BuildTx(r), "getLatestBlockhash")

\* code after `await this.connection.getLatestBlockhash(...)`: the
\* transaction gets its block reference and fee payer and is handed to the
\* signer
AfterLatestBlockhash(r, res) ==
    IF res = "failed" THEN Throw(r, "NetworkError")
    ELSE IF r.wallet.canSign THEN Issue(r, "signTransaction")
    ELSE IF r.op \in BoltOps
         THEN IF sessionWallet # "none"
              THEN Issue([r EXCEPT !.tx.signedBy = sessionWallet],
                         "sendAndConfirmTransaction")
              ELSE Throw(r, "NoSigningMethod")
         ELSE Throw(r, "SigningUnavailable")

\* mutation: the transaction is submitted whatever the signer answered
AfterSignTransaction_Mut(r, res) ==
    Issue([r EXCEPT !.tx.signedBy = r.wallet.signer], "sendRawTransaction")

\* code after `await currentWallet.signTransaction(transaction)`
AfterSignTransaction(r, res) ==
    IF res = "rejected" THEN Throw(r, "SigningDenied")
    ELSE Issue([r EXCEPT !.tx.signedBy = r.wallet.signer],
               "sendRawTransaction")

\* code after `await this.connection.sendRawTransaction(...)` and its
\* catch block; hasSig: signedTx.signatures[0] is present
AfterSendRawTransaction(r, res, hasSig) ==
    CASE res = "accepted" ->
           Issue([r EXCEPT !.accepted = @ + 1], "confirmTransaction")
      [] res = "networkError" -> Throw(r, "NetworkError")
      [] res = "sendTransactionError" -> Throw(r, "SendTransactionError")
      [] OTHER ->
           CASE r.op = "openPosition" ->
                  IF hasSig THEN Issue(r, "getSignatureStatus")
                  ELSE Throw(r, "AlreadyProcessedError")
             [] r.op = "closeDirectPosition" ->
                  Return(r, IF hasSig THEN TxSignature(r)
                            ELSE "close_position_success")
             [] r.op = "executeSpotTrade" ->
                  Return(r, IF hasSig THEN TxSignature(r)
                            ELSE "spot_trade_success")
             [] r.op \in {"buySpot", "sellSpot"} ->
                  Throw(r, "SendTransactionError")
             [] OTHER -> Throw(r, "AlreadyProcessedError")

\* mutation: the confirmation status is ignored
AfterSignatureStatus_Mut(r, res) == Throw(r, "AlreadyProcessedError")

\* code after `await this.connection.getSignatureStatus(txSignature)`
AfterSignatureStatus(r, res) ==
    IF res = "status" THEN Return(r, TxSignature(r))
    ELSE Throw(r, "AlreadyProcessedError")

\* what the call hands to confirmTransaction: the signature together with
\* the block reference of the transaction, or the signature alone
ConfirmStrategy(r) ==
    IF r.op = "initializeAccount" THEN "signature"
    ELSE "signatureAndBlockhash"

\* code after `await this.connection.confirmTransaction(...)`
AfterConfirmTransaction(r, res) ==
    IF res = "failed" THEN Throw(r, "ConfirmError")
    ELSE Return(r, TxSignature(r))

\* mutation: the Bolt operations sign with a block reference they did not
\* fetch
AfterApplySystem_Mut(r, res) ==
    IF res = "failed" THEN Throw(r, "ApplySystemError")
    ELSE AfterLatestBlockhash(BuildTx(r), "ok")

\* code after `await ApplySystem(...)`
AfterApplySystem(r, res) ==
    IF res = "failed" THEN Throw(r, "ApplySystemError")
    ELSE Issue(BuildTx(r), "getLatestBlockhash")

\* code after `await sendAndConfirmTransaction(...)`
AfterSendAndConfirm(r, res) ==
    CASE res = "confirmed" ->
           Return([r EXCEPT !.accepted = @ + 1], TxSignature(r))
      [] res = "confirmFailed" ->
           Throw([r EXCEPT !.accepted = @ + 1], "ConfirmError")
      [] OTHER -> Throw(r, "SendTransactionError")

(***************************************************************************)
(* The ledger                                                              *)
(***************************************************************************)
LedgerStates == [exists : BOOLEAN, tokenInBalance : TokenInBalances,
                 tokenOutBalance : TokenOutBalances,
                 totalPositions : 0..MaxPositions]

\* effect of a transaction of call r that the network accepted
LedgerAfterAccept(r) ==
    CASE r.op = "openPosition" ->
           [ledger EXCEPT !.totalPositions = @ + 1]
      [] r.op = "initializeAccount" -> [ledger EXCEPT !.exists = TRUE]
      [] OTHER -> ledger

\* the network can accept a transaction of call r while the ledger holds
\* fewer than cap positions
CanAcceptWithin(r, cap) ==
    r.op = "openPosition" => ledger.totalPositions < cap

CanAccept(r) == CanAcceptWithin(r, MaxPositions)

\* transactions of other clients and operations land on the ledger
LedgerChange ==
    /\ \E new \in LedgerStates :
         /\ new # ledger
         /\ ledger.exists => new.exists
         /\ new.totalPositions \in {ledger.totalPositions,
                                    ledger.totalPositions + 1}
         /\ ledger' = new
    /\ UNCHANGED <<clientVars, calls>>

(***************************************************************************)
(* Operations: the synchronous prefix of each public operation             *)
(***************************************************************************)
CanStart(c) == calls[c].pc \in {"idle", "done"}

Failed(r, k) == [r EXCEPT !.pc = "done", !.result = "error", !.err = k]

\* ApplySystem builds the transaction; it is not a call on the connection
IssueApplySystem(r) ==
    [r EXCEPT !.pc = "ApplySystem",
              !.trace = Append(@, [ev |-> "ApplySystem", att |-> r.att,
                                   path |-> "none", res |-> "pending",
                                   payload |-> r.tx.payload])]

\* first statements of openMagicBlockPosition: the balance read
openMagicBlockPosition(r) ==
    IssueUserAccountData([r EXCEPT !.att = "rollup"])

openPosition(c, pairSymbol, direction, currentPrice, size, takeProfit, stopLoss) ==
    /\ CanStart(c)
    /\ LET r == [IdleCall EXCEPT
                   !.op = "openPosition", !.wallet = getCurrentWallet,
                   !.args = [NoArgs EXCEPT !.pair = pairSymbol,
                               !.direction = direction,
                               !.price = currentPrice, !.size = size,
                               !.takeProfit = takeProfit,
                               !.stopLoss = stopLoss]]
       IN calls' = [calls EXCEPT ![c] =
            IF r.wallet = NoWallet THEN Failed(r, "WalletNotConnected")
            ELSE IF pairSymbol \notin TRADING_PAIRS
                 THEN Failed(r, "UnknownTradingPair")
                 ELSE openMagicBlockPosition(r)]
    /\ UNCHANGED <<clientVars, ledger>>

executeSpotTrade(c, pairSymbol, action, currentPrice, sizeInUSDT) ==
    /\ CanStart(c)
    /\ LET r == [IdleCall EXCEPT
                   !.op = "executeSpotTrade", !.att = "single",
                   !.wallet = getCurrentWallet,
                   !.args = [NoArgs EXCEPT !.pair = pairSymbol,
                               !.action = action, !.price = currentPrice,
                               !.size = sizeInUSDT]]
       IN calls' = [calls EXCEPT ![c] =
            IF r.wallet = NoWallet THEN Failed(r, "WalletNotConnected")
            ELSE IF pairSymbol \notin TRADING_PAIRS
                 THEN Failed(r, "UnknownTradingPair")
                 ELSE Issue(r, "getAccountInfo")]
    /\ UNCHANGED <<clientVars, ledger>>

buySpot(c, usdtAmount, currentPrice) ==
    /\ CanStart(c)
    /\ LET r == [IdleCall EXCEPT
                   !.op = "buySpot", !.att = "single",
                   !.wallet = getCurrentWallet,
                   !.args = [NoArgs EXCEPT !.pair = "SOL", !.action = "BUY",
                               !.price = currentPrice, !.size = usdtAmount]]
       IN calls' = [calls EXCEPT ![c] =
            IF r.wallet = NoWallet THEN Failed(r, "WalletNotConnected")
            ELSE Issue(BuildTx(r), "getLatestBlockhash")]
    /\ UNCHANGED <<clientVars, ledger>>

sellSpot(c, tokenAmount, currentPrice) ==
    /\ CanStart(c)
    /\ LET r == [IdleCall EXCEPT
                   !.op = "sellSpot", !.att = "single",
                   !.wallet = getCurrentWallet,
                   !.args = [NoArgs EXCEPT !.pair = "SOL", !.action = "SELL",
                               !.price = currentPrice, !.size = tokenAmount]]
       IN calls' = [calls EXCEPT ![c] =
            IF r.wallet = NoWallet THEN Failed(r, "WalletNotConnected")
            ELSE Issue(BuildTx(r), "getLatestBlockhash")]
    /\ UNCHANGED <<clientVars, ledger>>

closeDirectPosition(c, currentPrice) ==
    /\ CanStart(c)
    /\ LET r == [IdleCall EXCEPT
                   !.op = "closeDirectPosition", !.att = "single",
                   !.wallet = getCurrentWallet,
                   !.args = [NoArgs EXCEPT !.price = currentPrice]]
       IN calls' = [calls EXCEPT ![c] =
            IF r.wallet = NoWallet THEN Failed(r, "WalletNotConnected")
            ELSE Issue(r, "getAccountInfo")]
    /\ UNCHANGED <<clientVars, ledger>>

initializeAccount(c) ==
    /\ CanStart(c)
    /\ LET r == [IdleCall EXCEPT
                   !.op = "initializeAccount", !.att = "single",
                   !.wallet = getCurrentWallet,
                   !.args = [NoArgs EXCEPT !.pair = "SOL"]]
       IN calls' = [calls EXCEPT ![c] =
            IF r.wallet = NoWallet THEN Failed(r, "WalletNotConnected")
            ELSE Issue(r, "getAccountInfo")]
    /\ UNCHANGED <<clientVars, ledger>>

getUserAccountData(c) ==
    /\ CanStart(c)
    /\ LET r == [IdleCall EXCEPT
                   !.op = "getUserAccountData", !.att = "single",
                   !.wallet = getCurrentWallet,
                   !.args = [NoArgs EXCEPT !.pair = "SOL"]]
       IN calls' = [calls EXCEPT ![c] = IssueUserAccountData(r)]
    /\ UNCHANGED <<clientVars, ledger>>

checkAccountInitialized(c) ==
    /\ CanStart(c)
    /\ LET r == [IdleCall EXCEPT
                   !.op = "checkAccountInitialized", !.att = "single",
                   !.wallet = getCurrentWallet,
                   !.args = [NoArgs EXCEPT !.pair = "SOL"]]
       IN calls' = [calls EXCEPT ![c] = Issue(r, "getAccountInfo")]
    /\ UNCHANGED <<clientVars, ledger>>

getAccountStatus(c) ==
    /\ CanStart(c)
    /\ LET r == [IdleCall EXCEPT
                   !.op = "getAccountStatus", !.att = "single",
                   !.wallet = getCurrentWallet]
       IN calls' = [calls EXCEPT ![c] =
            IF r.wallet = NoWallet THEN ReturnList(r, {})
            ELSE Issue(r, "getAccountInfo")]
    /\ UNCHANGED <<clientVars, ledger>>

fetchPositions(c) ==
    /\ CanStart(c)
    /\ LET r == [IdleCall EXCEPT
                   !.op = "fetchPositions", !.att = "single",
                   !.wallet = getCurrentWallet]
       IN calls' = [calls EXCEPT ![c] =
            IF r.wallet = NoWallet THEN ReturnList(r, {})
            ELSE IF entityPda # "none"
                 THEN Issue([r EXCEPT !.att = "entity"], "getProgramAccounts")
                 ELSE Issue(r, "getProgramAccounts")]
    /\ UNCHANGED <<clientVars, ledger>>

fetchLeaderboard(c) ==
    /\ CanStart(c)
    /\ LET r == [IdleCall EXCEPT
                   !.op = "fetchLeaderboard", !.att = "single",
                   !.wallet = getCurrentWallet]
       IN calls' = [calls EXCEPT ![c] =
            IF competitionEntity = "none" THEN ReturnList(r, {})
            ELSE Issue(r, "getProgramAccounts")]
    /\ UNCHANGED <<clientVars, ledger>>

fetchCompetitionData(c) ==
    /\ CanStart(c)
    /\ LET r == [IdleCall EXCEPT
                   !.op = "fetchCompetitionData", !.att = "single",
                   !.wallet = getCurrentWallet]
       IN calls' = [calls EXCEPT ![c] =
            IF competitionEntity = "none" THEN Return(r, "null")
            ELSE Issue(r, "getCompetitionInfo")]
    /\ UNCHANGED <<clientVars, ledger>>

getBalance(c) ==
    /\ CanStart(c)
    /\ LET r == [IdleCall EXCEPT
                   !.op = "getBalance", !.att = "single",
                   !.wallet = getCurrentWallet]
       IN calls' = [calls EXCEPT ![c] =
            IF r.wallet = NoWallet THEN Return(r, "0")
            ELSE Issue(r, "getBalance")]
    /\ UNCHANGED <<clientVars, ledger>>

\* mutation: the Bolt operations do not look at the entity addresses
BoltOperation_Mut(c, op) ==
    /\ CanStart(c)
    /\ LET r == [IdleCall EXCEPT !.op = op, !.att = "single",
                                 !.wallet = getCurrentWallet]
       IN calls' = [calls EXCEPT ![c] =
            IF r.wallet = NoWallet THEN Failed(r, "NotInitialized")
            ELSE IssueApplySystem(r)]
    /\ UNCHANGED <<clientVars, ledger>>

requestAirdrop(c) ==
    /\ CanStart(c)
    /\ LET r == [IdleCall EXCEPT
                   !.op = "requestAirdrop", !.att = "single",
                   !.wallet = getCurrentWallet]
       IN calls' = [calls EXCEPT ![c] =
            IF sessionWallet = "none"
            THEN Failed(r, "SessionWalletNotInitialized")
            ELSE Issue(r, "requestAirdrop")]
    /\ UNCHANGED <<clientVars, ledger>>

\* closePosition, joinCompetition and settleCompetition up to ApplySystem
BoltOperation(c, op) ==
    /\ CanStart(c)
    /\ LET r == [IdleCall EXCEPT !.op = op, !.att = "single",
                                 !.wallet = getCurrentWallet]
       IN calls' = [calls EXCEPT ![c] =
            IF \/ r.wallet = NoWallet
               \/ competitionEntity = "none"
               \/ (op # "settleCompetition" /\ entityPda = "none")
            THEN Failed(r, "NotInitialized")
            ELSE IssueApplySystem(r)]
    /\ UNCHANGED <<clientVars, ledger>>

closePosition(c) == BoltOperation(c, "closePosition")

joinCompetition(c) == BoltOperation(c, "joinCompetition")

settleCompetition(c) == BoltOperation(c, "settleCompetition")

(***************************************************************************)
(* Resolution of the pending request of a call                             *)
(***************************************************************************)
Pending(c) == calls[c].trace[Len(calls[c].trace)]

GetUserAccountDataReturns(c) ==
    /\ calls[c].pc = "getUserAccountData"
    /\ \E res \in {"ok", "short", "null", "failed"} :
         /\ Pending(c).path = "none" => res = "null"
         /\ res = "ok" => (ledger.exists /\ chain.userData = "ok")
         /\ res = "short" => (ledger.exists /\ chain.userData = "short")
         /\ (res = "null" /\ Pending(c).path # "none") => ~ledger.exists
         /\ calls' = [calls EXCEPT ![c] =
              AfterUserAccountData(Resolved(calls[c], res), res = "ok",
                                   ledger.tokenInBalance,
                                   ledger.tokenOutBalance)]
    /\ UNCHANGED <<clientVars, ledger>>

GetAccountInfoReturns(c) ==
    /\ calls[c].pc = "getAccountInfo"
    /\ \E res \in {"ok", "short", "null", "failed"} :
         /\ calls[c].op = "closeDirectPosition" => res # "short"
         /\ calls[c].op # "closeDirectPosition" =>
              /\ res = "ok" => (ledger.exists /\ chain.userData = "ok")
              /\ res = "short" => (ledger.exists /\ chain.userData = "short")
              /\ res = "null" => ~ledger.exists
         /\ calls' = [calls EXCEPT ![c] =
              AfterAccountInfo(Resolved(calls[c], res), res,
                               ledger.totalPositions)]
    /\ UNCHANGED <<clientVars, ledger>>

GetProgramAccountsReturns(c) ==
    /\ calls[c].pc = "getProgramAccounts"
    /\ \E res \in {"ok", "failed"} :
         calls' = [calls EXCEPT ![c] =
           AfterProgramAccounts(Resolved(calls[c], res), res)]
    /\ UNCHANGED <<clientVars, ledger>>

\* getAccountInfo of the competition component
GetCompetitionInfoReturns(c) ==
    /\ calls[c].pc = "getCompetitionInfo"
    /\ \E res \in {"ok", "short", "null", "failed"} :
         /\ res = "ok" => chain.competition = "ok"
         /\ res = "short" => chain.competition = "short"
         /\ res = "null" => chain.competition = "absent"
         /\ calls' = [calls EXCEPT ![c] =
              AfterCompetitionInfo(Resolved(calls[c], res), res)]
    /\ UNCHANGED <<clientVars, ledger>>

GetBalanceReturns(c) ==
    /\ calls[c].pc = "getBalance"
    /\ \E res \in {"ok", "failed"} :
         calls' = [calls EXCEPT ![c] =
           AfterBalance(Resolved(calls[c], res), res)]
    /\ UNCHANGED <<clientVars, ledger>>

\* polls that one model run schedules
MaxPolls == 1

\* `await this.connection.requestAirdrop(...)` resolves: the poll is
\* scheduled and the signature returned
RequestAirdropReturns(c) ==
    /\ calls[c].pc = "requestAirdrop"
    /\ \E res \in {"ok", "failed"} :
         /\ res = "ok" => Len(poll) < MaxPolls
         /\ calls' = [calls EXCEPT ![c] =
              IF res = "failed" THEN Throw(Resolved(calls[c], res), "NetworkError")
              ELSE Return(Resolved(calls[c], res), "sig_airdrop")]
         /\ poll' = IF res = "ok" THEN Append(poll, ScheduledPoll) ELSE poll
    /\ UNCHANGED <<connection, connectedWallet, sessionWallet, entityPda,
                   competitionEntity, ledger, storage, keysGenerated,
                   sessionCalls, chain, codec, uiVars>>

\* the timer of setTimeout(..., 0) fires and the callback enters its loop
PollTimerFires(p) ==
    /\ poll[p].pc = "scheduled"
    /\ poll' = [poll EXCEPT ![p] = PollLoop(@)]
    /\ UNCHANGED <<connection, connectedWallet, sessionWallet, entityPda,
                   competitionEntity, ledger, calls, storage, keysGenerated,
                   sessionCalls, chain, codec, uiVars>>

\* the delay of the loop body is over and the balance is read
PollDelayElapses(p) ==
    /\ poll[p].pc = "delay"
    /\ poll' = [poll EXCEPT ![p] = [@ EXCEPT !.pc = "getBalance",
                                              !.delays = @ + 1,
                                              !.waited = PollDelay,
                                              !.reads = @ + 1]]
    /\ UNCHANGED <<connection, connectedWallet, sessionWallet, entityPda,
                   competitionEntity, ledger, calls, storage, keysGenerated,
                   sessionCalls, chain, codec, uiVars>>

PollBalanceReturns(p) ==
    /\ poll[p].pc = "getBalance"
    /\ \E res \in {"ok", "failed"} :
         poll' = [poll EXCEPT ![p] = AfterPollBalance(@, res, chain.lamports)]
    /\ UNCHANGED <<connection, connectedWallet, sessionWallet, entityPda,
                   competitionEntity, ledger, calls, storage, keysGenerated,
                   sessionCalls, chain, codec, uiVars>>

\* the network credits the airdrop
AirdropLands ==
    /\ chain.lamports = 0
    /\ \E c \in DOMAIN calls : calls[c].op = "requestAirdrop" /\ calls[c].result = "ok"
    /\ chain' = [chain EXCEPT !.lamports = 1000000000]
    /\ UNCHANGED <<connection, connectedWallet, sessionWallet, entityPda,
                   competitionEntity, ledger, calls, storage, keysGenerated,
                   sessionCalls, poll, codec, uiVars>>

GetConfigInfoReturns(c) ==
    /\ calls[c].pc = "getConfigInfo"
    /\ \E res \in {"ok", "null", "failed"} :
         calls' = [calls EXCEPT ![c] =
              AfterConfigInfo(Resolved(calls[c], res), res)]
    /\ UNCHANGED <<clientVars, ledger>>

GetLatestBlockhashReturns(c) ==
    /\ calls[c].pc = "getLatestBlockhash"
    /\ \E res \in {"ok", "failed"} :
         calls' = [calls EXCEPT ![c] =
              AfterLatestBlockhash(Resolved(calls[c], res), res)]
    /\ UNCHANGED <<clientVars, ledger>>

SignTransactionReturns(c) ==
    /\ calls[c].pc = "signTransaction"
    /\ \E res \in {"signed", "rejected"} :
         calls' = [calls EXCEPT ![c] =
              AfterSignTransaction(Resolved(calls[c], res), res)]
    /\ UNCHANGED <<clientVars, ledger>>

SendRawTransactionReturnsWithin(c, cap) ==
    /\ calls[c].pc = "sendRawTransaction"
    /\ \E res \in {"accepted", "alreadyProcessed", "sendTransactionError",
                   "networkError"}, hasSig \in BOOLEAN :
         /\ res = "accepted" => CanAcceptWithin(calls[c], cap)
         /\ res # "alreadyProcessed" => hasSig
         /\ calls' = [calls EXCEPT ![c] =
              AfterSendRawTransaction(Resolved(calls[c], res), res, hasSig)]
         /\ ledger' = IF res = "accepted" THEN LedgerAfterAccept(calls[c])
                      ELSE ledger
    /\ UNCHANGED clientVars

SendRawTransactionReturns(c) ==
    SendRawTransactionReturnsWithin(c, MaxPositions)

GetSignatureStatusReturns(c) ==
    /\ calls[c].pc = "getSignatureStatus"
    /\ \E res \in {"status", "none", "failed"} :
         calls' = [calls EXCEPT ![c] =
              AfterSignatureStatus(Resolved(calls[c], res), res)]
    /\ UNCHANGED <<clientVars, ledger>>

ConfirmTransactionReturns(c) ==
    /\ calls[c].pc = "confirmTransaction"
    /\ \E res \in {"confirmed", "resolvedErr", "failed"} :
         calls' = [calls EXCEPT ![c] =
              AfterConfirmTransaction(Resolved(calls[c], res), res)]
    /\ UNCHANGED <<clientVars, ledger>>

ApplySystemReturns(c) ==
    /\ calls[c].pc = "ApplySystem"
    /\ \E res \in {"ok", "failed"} :
         calls' = [calls EXCEPT ![c] =
              AfterApplySystem(Resolved(calls[c], res), res)]
    /\ UNCHANGED <<clientVars, ledger>>

SendAndConfirmTransactionReturns(c) ==
    /\ calls[c].pc = "sendAndConfirmTransaction"
    /\ \E res \in {"confirmed", "confirmFailed", "sendFailed"} :
         /\ calls' = [calls EXCEPT ![c] =
              AfterSendAndConfirm(Resolved(calls[c], res), res)]
         /\ ledger' = ledger
    /\ UNCHANGED clientVars

(***************************************************************************)
(* Specification: one caller, wallet events and a changing ledger          *)
(***************************************************************************)
Init ==
    /\ connection = MAGICBLOCK_RPC
    /\ connectedWallet = NoAdapter
    /\ sessionWallet = "none"
    /\ entityPda = "none"
    /\ competitionEntity = "none"
    /\ ledger \in LedgerStates
    /\ calls = [c \in {1} |-> IdleCall]
    /\ storage = "none"
    /\ keysGenerated = 0
    /\ sessionCalls = [k \in {} |-> IdleSessionCall]
    /\ chain = DefaultChain
    /\ poll = IdlePoll
    /\ codec = NoCodec
    /\ walletStore = InitialWalletStore
    /\ walletManager = NewWalletManager
    /\ page = NewPage

Next ==
    \/ \E w \in Adapters : setConnectedWallet(w)
    \/ initializeSessionWallet
    \/ LedgerChange
    \/ \E c \in DOMAIN calls, p \in PairInputs, i \in OpenInputs :
         openPosition(c, p, i[1], i[2], i[3], i[4], i[5])
    \/ \E c \in DOMAIN calls, p \in PairInputs, a \in {"BUY", "SELL"},
          pr \in PriceInputs, sz \in SizeInputs :
         executeSpotTrade(c, p, a, pr, sz)
    \/ \E c \in DOMAIN calls, sz \in SizeInputs, pr \in PriceInputs :
         buySpot(c, sz, pr)
    \/ \E c \in DOMAIN calls, am \in TokenAmountInputs, pr \in PriceInputs :
         sellSpot(c, am, pr)
    \/ \E c \in DOMAIN calls, pr \in PriceInputs : closeDirectPosition(c, pr)
    \/ \E c \in DOMAIN calls : initializeAccount(c)
    \/ \E c \in DOMAIN calls : closePosition(c)
    \/ \E c \in DOMAIN calls : joinCompetition(c)
    \/ \E c \in DOMAIN calls : settleCompetition(c)
    \/ \E c \in DOMAIN calls : getUserAccountData(c)
    \/ \E c \in DOMAIN calls : checkAccountInitialized(c)
    \/ \E c \in DOMAIN calls : GetUserAccountDataReturns(c)
    \/ \E c \in DOMAIN calls : GetAccountInfoReturns(c)
    \/ \E c \in DOMAIN calls : GetConfigInfoReturns(c)
    \/ \E c \in DOMAIN calls : GetLatestBlockhashReturns(c)
    \/ \E c \in DOMAIN calls : SignTransactionReturns(c)
    \/ \E c \in DOMAIN calls : SendRawTransactionReturns(c)
    \/ \E c \in DOMAIN calls : GetSignatureStatusReturns(c)
    \/ \E c \in DOMAIN calls : ConfirmTransactionReturns(c)
    \/ \E c \in DOMAIN calls : ApplySystemReturns(c)
    \/ \E c \in DOMAIN calls : SendAndConfirmTransactionReturns(c)

Spec == Init /\ [][Next]_vars

(***************************************************************************)
(* Specification: two callers open positions for one owner and one pair;   *)
(* nothing else touches the ledger                                         *)
(***************************************************************************)
ConcurrentOpenInput == <<"LONG", 200, 50000000, 250, 150>>

InitConc ==
    /\ connection = MAGICBLOCK_RPC
    /\ connectedWallet = [present |-> TRUE, connected |-> TRUE,
                          hasKey |-> TRUE, canSign |-> TRUE]
    /\ sessionWallet = "none"
    /\ entityPda = "entity_extKey"
    /\ competitionEntity = "competition"
    /\ ledger \in [exists : {TRUE}, tokenInBalance : {50000000},
                    tokenOutBalance : TokenOutBalances,
                    totalPositions : 0..(MaxPositions - 1)]
    /\ calls = [c \in {1, 2} |-> IdleCall]
    /\ storage = "none"
    /\ keysGenerated = 0
    /\ sessionCalls = [k \in {} |-> IdleSessionCall]
    /\ chain = DefaultChain
    /\ poll = IdlePoll
    /\ codec = NoCodec
    /\ walletStore = InitialWalletStore
    /\ walletManager = NewWalletManager
    /\ page = NewPage

NextConc ==
    \/ \E c \in DOMAIN calls :
         openPosition(c, "SOL", ConcurrentOpenInput[1], ConcurrentOpenInput[2],
                      ConcurrentOpenInput[3], ConcurrentOpenInput[4],
                      ConcurrentOpenInput[5])
    \/ \E c \in DOMAIN calls : GetUserAccountDataReturns(c)
    \/ \E c \in DOMAIN calls : GetAccountInfoReturns(c)
    \/ \E c \in DOMAIN calls : GetLatestBlockhashReturns(c)
    \/ \E c \in DOMAIN calls : SignTransactionReturns(c)
    \/ \E c \in DOMAIN calls : SendRawTransactionReturns(c)
    \/ \E c \in DOMAIN calls : GetSignatureStatusReturns(c)
    \/ \E c \in DOMAIN calls : ConfirmTransactionReturns(c)

SpecConc == InitConc /\ [][NextConc]_vars

(***************************************************************************)
(* Specification: one caller opens positions on a ledger with room for the *)
(* transactions of both attempts of a call                                 *)
(***************************************************************************)
InitRetry ==
    /\ connection = MAGICBLOCK_RPC
    /\ connectedWallet = [present |-> TRUE, connected |-> TRUE,
                          hasKey |-> TRUE, canSign |-> TRUE]
    /\ sessionWallet = "none"
    /\ entityPda = "entity_extKey"
    /\ competitionEntity = "competition"
    /\ ledger \in [exists : {TRUE}, tokenInBalance : TokenInBalances,
                    tokenOutBalance : TokenOutBalances,
                    totalPositions : 0..(MaxPositions - 1)]
    /\ calls = [c \in {1} |-> IdleCall]
    /\ storage = "none"
    /\ keysGenerated = 0
    /\ sessionCalls = [k \in {} |-> IdleSessionCall]
    /\ chain = DefaultChain
    /\ poll = IdlePoll
    /\ codec = NoCodec
    /\ walletStore = InitialWalletStore
    /\ walletManager = NewWalletManager
    /\ page = NewPage

NextRetry ==
    \/ \E c \in DOMAIN calls, i \in OpenInputs :
         openPosition(c, "SOL", i[1], i[2], i[3], i[4], i[5])
    \/ \E c \in DOMAIN calls : GetUserAccountDataReturns(c)
    \/ \E c \in DOMAIN calls : GetAccountInfoReturns(c)
    \/ \E c \in DOMAIN calls : GetLatestBlockhashReturns(c)
    \/ \E c \in DOMAIN calls : SignTransactionReturns(c)
    \/ \E c \in DOMAIN calls :
         SendRawTransactionReturnsWithin(c, MaxPositions + 1)
    \/ \E c \in DOMAIN calls : GetSignatureStatusReturns(c)
    \/ \E c \in DOMAIN calls : ConfirmTransactionReturns(c)

SpecRetry == InitRetry /\ [][NextRetry]_vars

(***************************************************************************)
(* Specification: the wallet fields of the client; the wallet store hands  *)
(* over adapters and two callers run initializeSessionWallet               *)
(***************************************************************************)
StorageInputs == {"none", "corrupt", "storedKey"}

InitWallet ==
    /\ connection = MAGICBLOCK_RPC
    /\ connectedWallet = NoAdapter
    /\ sessionWallet = "none"
    /\ entityPda = "none"
    /\ competitionEntity = "none"
    /\ ledger = [exists |-> FALSE, tokenInBalance |-> 50000000,
                 tokenOutBalance |-> 500000000, totalPositions |-> 0]
    /\ calls = [c \in {} |-> IdleCall]
    /\ storage \in StorageInputs
    /\ keysGenerated = 0
    /\ sessionCalls = [k \in {1, 2} |-> IdleSessionCall]
    /\ chain = DefaultChain
    /\ poll = IdlePoll
    /\ codec = NoCodec
    /\ walletStore = InitialWalletStore
    /\ walletManager = NewWalletManager
    /\ page = NewPage

NextWallet ==
    \/ \E w \in AdapterInputs : setConnectedWallet(w)
    \/ \E k \in DOMAIN sessionCalls : initializeSessionWalletCall(k)
    \/ \E k \in DOMAIN sessionCalls : InitializeSessionWalletReturns(k)

SpecWallet == InitWallet /\ [][NextWallet]_vars

(***************************************************************************)
(* Specification: one caller runs the trading operations and the read      *)
(* operations of the client; the ledger changes only by the transactions   *)
(* of the caller                                                           *)
(***************************************************************************)
InitClient ==
    /\ connection = MAGICBLOCK_RPC
    /\ connectedWallet = NoAdapter
    /\ sessionWallet = "none"
    /\ entityPda = "none"
    /\ competitionEntity = "none"
    /\ ledger \in {l \in LedgerStates : /\ l.tokenInBalance = 50000000
                                        /\ l.totalPositions = 0}
    /\ calls = [c \in {1} |-> IdleCall]
    /\ storage = "none"
    /\ keysGenerated = 0
    /\ sessionCalls = [k \in {} |-> IdleSessionCall]
    /\ chain = DefaultChain
    /\ poll = IdlePoll
    /\ codec = NoCodec
    /\ walletStore = InitialWalletStore
    /\ walletManager = NewWalletManager
    /\ page = NewPage

NextClient ==
    \/ \E w \in AdapterInputs : setConnectedWallet(w)
    \/ AdapterChange
    \/ initializeSessionWallet
    \/ \E c \in DOMAIN calls, p \in PairInputs, i \in OpenInputs :
         openPosition(c, p, i[1], i[2], i[3], i[4], i[5])
    \/ \E c \in DOMAIN calls, p \in PairInputs, a \in {"BUY", "SELL"},
          pr \in PriceInputs, sz \in SizeInputs :
         executeSpotTrade(c, p, a, pr, sz)
    \/ \E c \in DOMAIN calls, sz \in SizeInputs, pr \in PriceInputs :
         buySpot(c, sz, pr)
    \/ \E c \in DOMAIN calls, am \in TokenAmountInputs, pr \in PriceInputs :
         sellSpot(c, am, pr)
    \/ \E c \in DOMAIN calls, pr \in PriceInputs : closeDirectPosition(c, pr)
    \/ \E c \in DOMAIN calls : initializeAccount(c)
    \/ \E c \in DOMAIN calls : closePosition(c)
    \/ \E c \in DOMAIN calls : joinCompetition(c)
    \/ \E c \in DOMAIN calls : settleCompetition(c)
    \/ \E c \in DOMAIN calls : getUserAccountData(c)
    \/ \E c \in DOMAIN calls : checkAccountInitialized(c)
    \/ \E c \in DOMAIN calls : getAccountStatus(c)
    \/ \E c \in DOMAIN calls : fetchPositions(c)
    \/ \E c \in DOMAIN calls : fetchLeaderboard(c)
    \/ \E c \in DOMAIN calls : fetchCompetitionData(c)
    \/ \E c \in DOMAIN calls : getBalance(c)
    \/ \E c \in DOMAIN calls : GetUserAccountDataReturns(c)
    \/ \E c \in DOMAIN calls : GetAccountInfoReturns(c)
    \/ \E c \in DOMAIN calls : GetProgramAccountsReturns(c)
    \/ \E c \in DOMAIN calls : GetCompetitionInfoReturns(c)
    \/ \E c \in DOMAIN calls : GetBalanceReturns(c)
    \/ \E c \in DOMAIN calls : GetConfigInfoReturns(c)
    \/ \E c \in DOMAIN calls : GetLatestBlockhashReturns(c)
    \/ \E c \in DOMAIN calls : SignTransactionReturns(c)
    \/ \E c \in DOMAIN calls : SendRawTransactionReturns(c)
    \/ \E c \in DOMAIN calls : GetSignatureStatusReturns(c)
    \/ \E c \in DOMAIN calls : ConfirmTransactionReturns(c)
    \/ \E c \in DOMAIN calls : ApplySystemReturns(c)
    \/ \E c \in DOMAIN calls : SendAndConfirmTransactionReturns(c)

SpecClient == InitClient /\ [][NextClient]_vars

(***************************************************************************)
(* Specification: one caller runs the readers over every account table     *)
(* and over well-formed, short and absent records                          *)
(***************************************************************************)
ChainInputs ==
    {[DefaultChain EXCEPT !.userData = u, !.competition = k, !.accounts = t] :
       u \in {"ok", "short"}, k \in {"ok", "short", "absent"},
       t \in SUBSET ProgramAccountInputs}

InitRead ==
    /\ connection = MAGICBLOCK_RPC
    /\ connectedWallet = NoAdapter
    /\ sessionWallet = "none"
    /\ entityPda = "none"
    /\ competitionEntity = "none"
    /\ ledger = [exists |-> TRUE, tokenInBalance |-> 50000000,
                 tokenOutBalance |-> 500000000, totalPositions |-> 0]
    /\ calls = [c \in {1} |-> IdleCall]
    /\ storage = "none"
    /\ keysGenerated = 0
    /\ sessionCalls = [k \in {} |-> IdleSessionCall]
    /\ chain \in ChainInputs
    /\ poll = IdlePoll
    /\ codec = NoCodec
    /\ walletStore = InitialWalletStore
    /\ walletManager = NewWalletManager
    /\ page = NewPage

NextRead ==
    \/ \E w \in Adapters : setConnectedWallet(w)
    \/ initializeSessionWallet
    \/ \E c \in DOMAIN calls : getUserAccountData(c)
    \/ \E c \in DOMAIN calls : fetchPositions(c)
    \/ \E c \in DOMAIN calls : fetchCompetitionData(c)
    \/ \E c \in DOMAIN calls : GetUserAccountDataReturns(c)
    \/ \E c \in DOMAIN calls : GetProgramAccountsReturns(c)
    \/ \E c \in DOMAIN calls : GetCompetitionInfoReturns(c)

SpecRead == InitRead /\ [][NextRead]_vars

(***************************************************************************)
(* Specification: airdrops to the session wallet and their balance polls;  *)
(* timers fire and pending reads are answered                              *)
(***************************************************************************)
InitAirdrop ==
    /\ connection = MAGICBLOCK_RPC
    /\ connectedWallet = NoAdapter
    /\ sessionWallet = "none"
    /\ entityPda = "none"
    /\ competitionEntity = "none"
    /\ ledger = [exists |-> FALSE, tokenInBalance |-> 50000000,
                 tokenOutBalance |-> 500000000, totalPositions |-> 0]
    /\ calls = [c \in {1} |-> IdleCall]
    /\ storage = "none"
    /\ keysGenerated = 0
    /\ sessionCalls = [k \in {} |-> IdleSessionCall]
    /\ chain = DefaultChain
    /\ poll = IdlePoll
    /\ codec = NoCodec
    /\ walletStore = InitialWalletStore
    /\ walletManager = NewWalletManager
    /\ page = NewPage

NextAirdrop ==
    \/ initializeSessionWallet
    \/ \E c \in DOMAIN calls : requestAirdrop(c)
    \/ \E c \in DOMAIN calls : RequestAirdropReturns(c)
    \/ \E p \in DOMAIN poll : PollTimerFires(p)
    \/ \E p \in DOMAIN poll : PollDelayElapses(p)
    \/ \E p \in DOMAIN poll : PollBalanceReturns(p)
    \/ AirdropLands

PollSteps ==
    \E p \in DOMAIN poll :
      PollTimerFires(p) \/ PollDelayElapses(p) \/ PollBalanceReturns(p)

SpecAirdrop == InitAirdrop /\ [][NextAirdrop]_vars /\ WF_vars(PollSteps)

(***************************************************************************)
(* Numbers and bytes.  A natural number is the function from 1..NumLimbs   *)
(* to its digits to the base 2^15, least significant first; a Number of    *)
(* JavaScript (an IEEE 754 double, here never negative) is m * 2^e with m  *)
(* a natural number of at most 53 binary digits.                           *)
(***************************************************************************)
LimbBits == 15

LimbBase == 32768

NumLimbs == 12

Pow2(k) ==
    <<1, 2, 4, 8, 16, 32, 64, 128, 256, 512, 1024, 2048, 4096, 8192, 16384,
      32768>>[k + 1]

\* the digits d[1], ..., d[NumLimbs] as a tuple
Digits(d) == SubSeq(d, 1, NumLimbs)

Zero == Digits([i \in 1..NumLimbs |-> 0])

\* the natural number n < 2^31
BitsOf(n) ==
    Digits([i \in 1..NumLimbs |->
       CASE i = 1 -> n % LimbBase
         [] i = 2 -> (n \div LimbBase) % LimbBase
         [] i = 3 -> n \div (LimbBase * LimbBase)
         [] OTHER -> 0])

Limb(b, i) == IF i <= NumLimbs THEN b[i] ELSE 0

\* the digits below k of a + b carry into digit k
Carry(a, b, k) ==
    \E j \in 1..(k - 1) :
      /\ a[j] + b[j] >= LimbBase
      /\ \A i \in (j + 1)..(k - 1) : a[i] + b[i] = LimbBase - 1

BigAdd(a, b) ==
    Digits([k \in 1..NumLimbs |->
       (a[k] + b[k] + IF Carry(a, b, k) THEN 1 ELSE 0) % LimbBase])

BigLess(a, b) ==
    \E j \in 1..NumLimbs :
      a[j] < b[j] /\ \A i \in (j + 1)..NumLimbs : a[i] = b[i]

\* the digits below k of a - b borrow from digit k
Borrow(a, b, k) ==
    \E j \in 1..(k - 1) :
      a[j] < b[j] /\ \A i \in (j + 1)..(k - 1) : a[i] = b[i]

\* a - b for a >= b
BigSub(a, b) ==
    Digits([k \in 1..NumLimbs |->
       (LimbBase + a[k] - b[k] - IF Borrow(a, b, k) THEN 1 ELSE 0) % LimbBase])

\* a * c for c <= 2^15
BigTimes(a, c) ==
    BigAdd(Digits([i \in 1..NumLimbs |-> (a[i] * c) % LimbBase]),
           Digits([i \in 1..NumLimbs |->
                     IF i = 1 THEN 0 ELSE (a[i - 1] * c) \div LimbBase]))

\* b * 2^(15 k)
ShiftLimbs(b, k) ==
    Digits([i \in 1..NumLimbs |-> IF i > k THEN b[i - k] ELSE 0])

\* a * c for c < 2^30
BigMul(a, c) ==
    BigAdd(BigTimes(a, c % LimbBase),
           ShiftLimbs(BigTimes(a, c \div LimbBase), 1))

\* number of binary digits
BitLen(b) ==
    IF b = Zero THEN 0
    ELSE LET top == CHOOSE i \in 1..NumLimbs :
                      b[i] # 0 /\ \A j \in (i + 1)..NumLimbs : b[j] = 0
         IN LimbBits * (top - 1)
              + (CHOOSE k \in 1..LimbBits :
                   Pow2(k - 1) <= b[top] /\ b[top] < Pow2(k))

\* binary digit i, the least significant being digit 1
Bit(b, i) ==
    (Limb(b, ((i - 1) \div LimbBits) + 1) \div Pow2((i - 1) % LimbBits)) % 2

\* b * 2^k
ShiftLeft(b, k) ==
    ShiftLimbs(BigTimes(b, Pow2(k % LimbBits)), k \div LimbBits)

\* b \div 2^k
ShiftRight(b, k) ==
    LET drop == k \div LimbBits
        low == Pow2(k % LimbBits)
        high == LimbBase \div low
    IN Digits([i \in 1..NumLimbs |->
                 (Limb(b, i + drop) \div low)
                   + (Limb(b, i + drop + 1) % low) * high])

\* the natural number below 2^30 as an integer
IntOf(b) == b[1] + LimbBase * b[2]

\* the digit c with c * d <= r < (c + 1) * d, for r < 2^15 * d: the leading
\* binary digits of r and d bound it from both sides
QuotientDigit(r, d) ==
    LET sh == IF BitLen(d) > LimbBits THEN BitLen(d) - LimbBits ELSE 0
        rtop == IntOf(ShiftRight(r, sh))
        dtop == IntOf(ShiftRight(d, sh))
    IN IF sh = 0 THEN rtop \div dtop
       ELSE CHOOSE c \in (rtop \div (dtop + 1))..((rtop + 1) \div dtop) :
              /\ c < LimbBase
              /\ ~BigLess(r, BigTimes(d, c))
              /\ BigLess(r, BigTimes(d, c + 1))

\* long division of the digits i..1 of a by d, r the remainder and q the
\* quotient so far
RECURSIVE DivFrom(_, _, _, _, _)
DivFrom(a, d, i, r, q) ==
    IF i = 0 THEN [q |-> q, r |-> r]
    ELSE LET r2 == BigAdd(ShiftLimbs(r, 1), BitsOf(a[i]))
             c == QuotientDigit(r2, d)
         IN DivFrom(a, d, i - 1, BigSub(r2, BigTimes(d, c)),
                    [q EXCEPT ![i] = c])

BigDivMod(a, d) == DivFrom(a, d, NumLimbs, Zero, Zero)

\* digits of the mantissa of a double
MantissaBits == 53

\* the natural number b, with `inexact` telling that something below its
\* last digit was cut off, rounded to MantissaBits digits, ties to even:
\* the result is m * 2^k
Round53(b, inexact) ==
    IF BitLen(b) <= MantissaBits THEN [m |-> b, k |-> 0]
    ELSE LET k == BitLen(b) - MantissaBits
             top == ShiftRight(b, k)
             below == inexact \/ \E i \in 1..(k - 1) : Bit(b, i) = 1
             up == Bit(b, k) = 1 /\ (below \/ Bit(top, 1) = 1)
             m == IF up THEN BigAdd(top, BitsOf(1)) ELSE top
         IN IF BitLen(m) > MantissaBits
            THEN [m |-> ShiftRight(m, 1), k |-> k + 1]
            ELSE [m |-> m, k |-> k]

\* the double nearest to num / den
DoubleOfRatio(num, den) ==
    IF num = Zero THEN [m |-> Zero, e |-> 0]
    ELSE LET s == MantissaBits + 2 + BitLen(den)
             d == BigDivMod(ShiftLeft(num, s), den)
             r == Round53(d.q, d.r # Zero)
         IN [m |-> r.m, e |-> r.k - s]

\* the Number a decimal literal with two decimals denotes: cents / 100
NumberOfCents(cents) == DoubleOfRatio(BitsOf(cents), BitsOf(100))

\* x / y of two Numbers
DoubleDiv(x, y) ==
    LET r == DoubleOfRatio(x.m, y.m)
    IN IF x.m = Zero THEN x ELSE [m |-> r.m, e |-> r.e + x.e - y.e]

\* x * c for a Number x and a natural number c < 2^30
DoubleTimes(x, c) ==
    LET r == Round53(BigMul(x.m, c), FALSE)
    IN [m |-> r.m, e |-> x.e + r.k]

\* Math.floor of a Number, as the natural number BigInt(...) makes of it
MathFloor(x) ==
    IF x.e >= 0 THEN ShiftLeft(x.m, x.e) ELSE ShiftRight(x.m, 0 - x.e)

\* Number(bigint)
NumberOfBigInt(b) ==
    LET r == Round53(b, FALSE) IN [m |-> r.m, e |-> r.k]

\* byte i of the little-endian bytes of b
ByteAt(b, i) ==
    LET first == (8 * (i - 1)) \div LimbBits
        window == Limb(b, first + 1) + LimbBase * Limb(b, first + 2)
    IN (window \div Pow2((8 * (i - 1)) % LimbBits)) % 256

\* the eight bytes buf.writeBigUInt64LE(value) stores; a value of more than
\* 64 binary digits makes it throw a RangeError
writeBigUInt64LE(b) ==
    IF BitLen(b) > 64 THEN "RangeError"
    ELSE SubSeq([i \in 1..8 |-> ByteAt(b, i)], 1, 8)

ByteOf(bytes, i) == IF i <= Len(bytes) THEN bytes[i] ELSE 0

\* the bigint buf.readBigUInt64LE() makes of eight bytes
readBigUInt64LE(bytes) ==
    Digits([k \in 1..NumLimbs |->
       LET first == (LimbBits * (k - 1)) \div 8
           window == ByteOf(bytes, first + 1) + 256 * ByteOf(bytes, first + 2)
                       + 65536 * ByteOf(bytes, first + 3)
       IN (window \div Pow2((LimbBits * (k - 1)) % 8)) % LimbBase])

\* Buffer.from([n]): one byte, n modulo 256
BufferFromByte(n) == <<n % 256>>

\* first eight bytes of the SHA-256 digest of the method name
discriminator(methodName) ==
    IF methodName = "global:open_long_position"
    THEN <<246, 23, 177, 9, 228, 202, 219, 38>>
    ELSE <<101, 142, 41, 201, 192, 88, 35, 165>>

\* the instruction data openMagicBlockPosition and openDirectPosition build
\* from their arguments, prices and size given in cents; 0 is an unset
\* take-profit or stop-loss.  A field that does not fit 64 bits makes
\* writeBigUInt64LE throw.
instructionData(direction, currentPrice, size, takeProfit, stopLoss) ==
    LET price == NumberOfCents(currentPrice)
        priceScaled == MathFloor(DoubleTimes(price, 1000000))
        amountTokenOut ==
            MathFloor(DoubleTimes(DoubleDiv(NumberOfCents(size), price),
                                  1000000000))
        takeProfitScaled ==
            IF takeProfit # 0
            THEN MathFloor(DoubleTimes(NumberOfCents(takeProfit), 1000000))
            ELSE Zero
        stopLossScaled ==
            IF stopLoss # 0
            THEN MathFloor(DoubleTimes(NumberOfCents(stopLoss), 1000000))
            ELSE Zero
        fields == <<amountTokenOut, priceScaled, takeProfitScaled,
                    stopLossScaled>>
    IN IF \E i \in 1..4 : BitLen(fields[i]) > 64 THEN "RangeError"
       ELSE discriminator(OpenSelector(direction))
              \o writeBigUInt64LE(amountTokenOut)
              \o writeBigUInt64LE(priceScaled)
              \o writeBigUInt64LE(takeProfitScaled)
              \o writeBigUInt64LE(stopLossScaled)

\* seeds of getUserAccountPDA
getUserAccountPDA(userPubkey, pairIndex) ==
    <<"user", userPubkey, BufferFromByte(pairIndex)>>

\* seeds of getPositionPDA
getPositionPDA(tradingAccount, positionId) ==
    <<"position", tradingAccount, BufferFromByte(positionId)>>

\* seeds of the position address openMagicBlockPosition and
\* openDirectPosition derive from the counter read from the account
positionPDA(publicKey, pairIndex, totalPositions) ==
    <<"position", publicKey, BufferFromByte(pairIndex),
      writeBigUInt64LE(totalPositions)>>

\* the totalPositions getUserAccountData returns for the eight bytes stored
\* in the account
DecodedTotalPositions(bytes) == NumberOfBigInt(readBigUInt64LE(bytes))

(***************************************************************************)
(* Specification: the encoder of openPosition, the decoder of the user     *)
(* account and the address derivations applied to their inputs             *)
(***************************************************************************)
\* prices, sizes and limits in cents: 198.50, 2.01, 200.00; 500.00, 1.00
CentsPriceInputs == {19850, 201, 20000}

CentsSizeInputs == {50000, 100}

EncoderInputs ==
    [direction : {"LONG", "SHORT"}, price : CentsPriceInputs,
     size : CentsSizeInputs, takeProfit : {0, 25000}, stopLoss : {0, 15000}]

\* the eight bytes of totalPositions in a user account: 0, 1, 263, 2^53,
\* 2^53 + 1, 2^53 + 2, 2^63, 2^64 - 2048, 2^64 - 1
U64Inputs ==
    {<<0, 0, 0, 0, 0, 0, 0, 0>>, <<1, 0, 0, 0, 0, 0, 0, 0>>,
     <<7, 1, 0, 0, 0, 0, 0, 0>>, <<0, 0, 0, 0, 0, 0, 32, 0>>,
     <<1, 0, 0, 0, 0, 0, 32, 0>>, <<2, 0, 0, 0, 0, 0, 32, 0>>,
     <<0, 0, 0, 0, 0, 0, 0, 128>>, <<0, 248, 255, 255, 255, 255, 255, 255>>,
     <<255, 255, 255, 255, 255, 255, 255, 255>>}

SeedInputs ==
    [owner : {"extKey", "sessKey"}, pairIndex : {0, 1},
     positionId : {0, 1, 256}]

InitCodec ==
    /\ connection = MAGICBLOCK_RPC
    /\ connectedWallet = NoAdapter
    /\ sessionWallet = "none"
    /\ entityPda = "none"
    /\ competitionEntity = "none"
    /\ ledger = [exists |-> FALSE, tokenInBalance |-> 50000000,
                 tokenOutBalance |-> 500000000, totalPositions |-> 0]
    /\ calls = [c \in {} |-> IdleCall]
    /\ storage = "none"
    /\ keysGenerated = 0
    /\ sessionCalls = [k \in {} |-> IdleSessionCall]
    /\ chain = DefaultChain
    /\ poll = IdlePoll
    /\ walletStore = InitialWalletStore
    /\ walletManager = NewWalletManager
    /\ page = NewPage
    /\ \/ \E a \in EncoderInputs :
            codec = [phase |-> "args", kind |-> "openPosition", args |-> a,
                     out |-> <<>>]
       \/ \E b \in U64Inputs :
            codec = [phase |-> "args", kind |-> "userAccount", args |-> b,
                     out |-> <<>>]
       \/ \E a \in SeedInputs, b \in SeedInputs :
            codec = [phase |-> "args", kind |-> "seeds", args |-> <<a, b>>,
                     out |-> <<>>]

CodecStep(kind, out) ==
    /\ codec.phase = "args"
    /\ codec.kind = kind
    /\ codec' = [codec EXCEPT !.phase = "done", !.out = out]
    /\ UNCHANGED <<connection, connectedWallet, sessionWallet, entityPda,
                   competitionEntity, ledger, calls, storage, keysGenerated,
                   sessionCalls, chain, poll, uiVars>>

EncodeOpenPosition ==
    CodecStep("openPosition",
              instructionData(codec.args.direction, codec.args.price,
                              codec.args.size, codec.args.takeProfit,
                              codec.args.stopLoss))

DecodeUserAccount ==
    CodecStep("userAccount", DecodedTotalPositions(codec.args))

\* seeds of the three derivations for one input tuple
SeedsOf(t) ==
    [user |-> getUserAccountPDA(t.owner, t.pairIndex),
     position |-> getPositionPDA(t.owner, t.positionId),
     open |-> positionPDA(t.owner, t.pairIndex, BitsOf(t.positionId))]

DeriveAddresses ==
    CodecStep("seeds", <<SeedsOf(codec.args[1]), SeedsOf(codec.args[2])>>)

NextCodec ==
    \/ EncodeOpenPosition
    \/ DecodeUserAccount
    \/ DeriveAddresses

SpecCodec == InitCodec /\ [][NextCodec]_vars

(***************************************************************************)
(* The wallet store and WalletManager.  The adapters belong to the wallet  *)
(* library: connect() of an adapter that is connected returns at once and  *)
(* emits nothing, otherwise it emits 'connect' and resolves, or emits      *)
(* 'error' and rejects.  connect() registers its three listeners at every  *)
(* call; they write the same values however often they are registered, so *)
(* the model keeps one flag per adapter.                                   *)
(***************************************************************************)
\* wallet names a caller passes: the two adapters, one that is not in the
\* list, and no name
WalletNameInputs == Wallets \cup {"Backpack", "undefined"}

KeyOf(a) == IF a = "Phantom" THEN "phantomKey" ELSE "solflareKey"

\* the listener of 'connect' registered for adapter a
OnConnect(st, a) ==
    [st EXCEPT !.adapter = a, !.connected = TRUE, !.connecting = FALSE,
               !.publicKey = KeyOf(a), !.wallet = a]

\* the listener of 'disconnect'
OnDisconnect(st) ==
    [st EXCEPT !.adapter = "none", !.connected = FALSE, !.connecting = FALSE,
               !.publicKey = "none", !.wallet = "none"]

\* the listener of 'error', and the catch block of connect
OnError(st) == [st EXCEPT !.connecting = FALSE]

WalletCallIdle(k) == walletManager.calls[k].pc \in {"idle", "done"}

WalletStep(st, mgr) ==
    /\ walletStore' = st
    /\ walletManager' = mgr
    /\ UNCHANGED <<connection, connectedWallet, sessionWallet, entityPda,
                   competitionEntity, ledger, calls, storage, keysGenerated,
                   sessionCalls, chain, poll, codec, page>>

\* WalletManager.connect up to `await adapter.connect()`; auto: the call
\* comes from autoConnect, which removes the saved name when it fails
ConnectCall(k, walletName, auto) ==
    LET adapter == IF walletName = "undefined" THEN "Phantom" ELSE walletName
    IN IF adapter \notin Wallets
       THEN WalletStep(OnError([walletStore EXCEPT !.connecting = TRUE]),
                       [walletManager EXCEPT
                          !.saved = IF auto THEN "none" ELSE @,
                          !.calls[k] = [op |-> "connect", pc |-> "done",
                                        adapter |-> "none", auto |-> auto,
                                        result |-> "error"]])
       ELSE WalletStep([walletStore EXCEPT !.connecting = TRUE],
                       [walletManager EXCEPT
                          !.selectedWallet = adapter,
                          !.listeners[adapter] = TRUE,
                          !.calls[k] = [op |-> "connect",
                                        pc |-> "adapter.connect",
                                        adapter |-> adapter, auto |-> auto,
                                        result |-> "none"]])

connect(k, walletName) ==
    /\ WalletCallIdle(k)
    /\ ConnectCall(k, walletName, FALSE)

autoConnect(k) ==
    /\ WalletCallIdle(k)
    /\ walletManager.saved # "none"
    /\ ConnectCall(k, walletManager.saved, TRUE)

\* `await adapter.connect()` settles, with the listeners the adapter runs
\* before it does, and the rest of connect
AfterAdapterConnect(k, res) ==
    LET w == walletManager.calls[k]
        a == w.adapter
    IN CASE res = "resolved" /\ walletManager.connected[a] ->
              WalletStep(walletStore,
                         [walletManager EXCEPT
                            !.calls[k] = [w EXCEPT !.pc = "done",
                                                   !.result = "ok"]])
         [] res = "resolved" /\ ~walletManager.connected[a] ->
              WalletStep(OnConnect(walletStore, a),
                         [walletManager EXCEPT
                            !.connected[a] = TRUE,
                            !.saved = a,
                            !.calls[k] = [w EXCEPT !.pc = "done",
                                                   !.result = "ok"]])
         [] OTHER ->
              WalletStep(OnError(OnError(walletStore)),
                         [walletManager EXCEPT
                            !.saved = IF w.auto THEN "none" ELSE @,
                            !.calls[k] = [w EXCEPT !.pc = "done",
                                                   !.result = "error"]])

AdapterConnectReturns(k) ==
    /\ walletManager.calls[k].pc = "adapter.connect"
    /\ \E res \in {"resolved", "rejected"} :
         /\ res = "rejected"
              => ~walletManager.connected[walletManager.calls[k].adapter]
         /\ AfterAdapterConnect(k, res)

\* WalletManager.disconnect up to `await this.selectedWallet.disconnect()`
disconnect(k) ==
    /\ WalletCallIdle(k)
    /\ walletManager.selectedWallet # "none"
    /\ WalletStep(walletStore,
                  [walletManager EXCEPT
                     !.calls[k] = [op |-> "disconnect",
                                   pc |-> "adapter.disconnect",
                                   adapter |-> walletManager.selectedWallet,
                                   auto |-> FALSE, result |-> "none"]])

\* `await this.selectedWallet.disconnect()` settles: the adapter emits
\* 'disconnect' when it was connected; then this.selectedWallet = null
AfterAdapterDisconnect(k, res) ==
    LET w == walletManager.calls[k]
        a == w.adapter
    IN IF res = "resolved"
       THEN WalletStep(IF walletManager.connected[a]
                       THEN OnDisconnect(walletStore) ELSE walletStore,
                       [walletManager EXCEPT
                          !.connected[a] = FALSE,
                          !.saved = IF walletManager.connected[a]
                                    THEN "none" ELSE @,
                          !.selectedWallet = "none",
                          !.calls[k] = [w EXCEPT !.pc = "done",
                                                 !.result = "ok"]])
       ELSE WalletStep(IF walletManager.listeners[a]
                       THEN OnError(walletStore) ELSE walletStore,
                       [walletManager EXCEPT
                          !.calls[k] = [w EXCEPT !.pc = "done",
                                                 !.result = "ok"]])

AdapterDisconnectReturns(k) ==
    /\ walletManager.calls[k].pc = "adapter.disconnect"
    /\ \E res \in {"resolved", "rejected"} : AfterAdapterDisconnect(k, res)

\* the wallet disconnects on its own side: adapter a emits 'disconnect'
AdapterDisconnects(a) ==
    /\ walletManager.connected[a]
    /\ WalletStep(IF walletManager.listeners[a]
                  THEN OnDisconnect(walletStore) ELSE walletStore,
                  [walletManager EXCEPT
                     !.connected[a] = FALSE,
                     !.saved = IF walletManager.listeners[a]
                               THEN "none" ELSE @])

\* adapter a emits 'error'
AdapterErrors(a) ==
    /\ walletManager.listeners[a]
    /\ walletStore.connecting
    /\ WalletStep(OnError(walletStore), walletManager)

InitStore ==
    /\ connection = MAGICBLOCK_RPC
    /\ connectedWallet = NoAdapter
    /\ sessionWallet = "none"
    /\ entityPda = "none"
    /\ competitionEntity = "none"
    /\ ledger = [exists |-> FALSE, tokenInBalance |-> 50000000,
                 tokenOutBalance |-> 500000000, totalPositions |-> 0]
    /\ calls = [c \in {} |-> IdleCall]
    /\ storage = "none"
    /\ keysGenerated = 0
    /\ sessionCalls = [k \in {} |-> IdleSessionCall]
    /\ chain = DefaultChain
    /\ poll = IdlePoll
    /\ codec = NoCodec
    /\ walletStore = InitialWalletStore
    /\ walletManager = NewWalletManager
    /\ page = NewPage

NextStore ==
    \/ \E k \in 1..MaxWalletCalls, n \in WalletNameInputs : connect(k, n)
    \/ \E k \in 1..MaxWalletCalls : autoConnect(k)
    \/ \E k \in 1..MaxWalletCalls : disconnect(k)
    \/ \E k \in 1..MaxWalletCalls : AdapterConnectReturns(k)
    \/ \E k \in 1..MaxWalletCalls : AdapterDisconnectReturns(k)
    \/ \E a \in Wallets : AdapterDisconnects(a)
    \/ \E a \in Wallets : AdapterErrors(a)

SpecStore == InitStore /\ [][NextStore]_vars

(***************************************************************************)
(* The paper-trading dashboard.  Prices are whole quote units, sizes whole *)
(* quote units, P&L hundredths; with the prices and sizes drawn here every *)
(* finite P&L is a whole number of hundredths.  The reactive block runs    *)
(* after every handler that assigns activePositions or prices.             *)
(***************************************************************************)
\* positions the user opens
MaxOpened == 2

\* callbacks setTimeout holds at a time
MaxTimers == 2

\* prices the feed delivers; before its first message the price is 0
FeedPrices == {100, 200}

TakeProfitInputs == {0, 200}

StopLossInputs == {0, 100}

\* ((currentPrice - entryPrice) / entryPrice) * size, or with the
\* difference reversed for a short position
PositionPnl(direction, currentPrice, entryPrice, size) ==
    LET diff == IF direction = "LONG" THEN currentPrice - entryPrice
                ELSE entryPrice - currentPrice
    IN IF entryPrice = 0
       THEN CASE diff > 0 -> Infinity
              [] diff < 0 -> NegInfinity
              [] OTHER -> NaN
       ELSE Num((diff * size * 100) \div entryPrice)

\* x + y
NumAdd(x, y) ==
    CASE x.k = "NaN" \/ y.k = "NaN" -> NaN
      [] x.k = "finite" /\ y.k = "finite" -> Num(x.v + y.v)
      [] x.k = "finite" -> y
      [] y.k = "finite" -> x
      [] x.k = y.k -> x
      [] OTHER -> NaN

\* x > y and x >= y
NumGreater(x, y) ==
    CASE x.k = "NaN" \/ y.k = "NaN" -> FALSE
      [] x.k = "finite" /\ y.k = "finite" -> x.v > y.v
      [] OTHER -> x.k # y.k /\ (x.k = "Infinity" \/ y.k = "-Infinity")

NumAtLeast(x, y) ==
    CASE x.k = "NaN" \/ y.k = "NaN" -> FALSE
      [] x.k = "finite" /\ y.k = "finite" -> x.v >= y.v
      [] OTHER -> x.k = y.k \/ x.k = "Infinity" \/ y.k = "-Infinity"

\* index the entry i of list has in the stable descending order
SortedIndex(list, i) ==
    1 + Cardinality({j \in DOMAIN list :
                       \/ NumGreater(list[j].pnl, list[i].pnl)
                       \/ (list[j].pnl = list[i].pnl /\ j < i)})

\* list in stable descending order of pnl; no pnl is NaN
StableSorted(list) ==
    SubSeq([k \in DOMAIN list |->
              list[CHOOSE i \in DOMAIN list : SortedIndex(list, i) = k]],
           1, Len(list))

InsertAt(list, k, e) ==
    SubSeq(list, 1, k - 1) \o <<e>> \o SubSeq(list, k, Len(list))

RECURSIVE Placed(_, _)
\* sorted with the entries of rest put in at any index
Placed(sorted, rest) ==
    IF rest = <<>> THEN {sorted}
    ELSE UNION {Placed(InsertAt(sorted, k, Head(rest)), Tail(rest)) :
                  k \in 1..(Len(sorted) + 1)}

\* the results leaderboardData.sort((a, b) => b.pnl - a.pnl) can leave: the
\* entries the comparator orders are in stable descending order; for an
\* entry whose pnl is NaN the comparator gives NaN, the order is then
\* implementation-defined and the entry lands at any index
SortResults(list) ==
    Placed(StableSorted(SelectSeq(list, LAMBDA e : e.pnl.k # "NaN")),
           SelectSeq(list, LAMBDA e : e.pnl.k = "NaN"))

\* leaderboardData.map((item, index) => ({ ...item, rank: index + 1 }))
Ranked(list) == [i \in DOMAIN list |-> [list[i] EXCEPT !.rank = i]]

\* the callbacks the reactive block schedules for one position
Triggers(position, currentPrice) ==
    (IF /\ position.takeProfit # 0
        /\ \/ position.direction = "LONG"
              /\ currentPrice >= position.takeProfit
           \/ position.direction = "SHORT"
              /\ currentPrice <= position.takeProfit
     THEN <<position.id>> ELSE <<>>)
    \o (IF /\ position.stopLoss # 0
           /\ \/ position.direction = "LONG"
                 /\ currentPrice <= position.stopLoss
              \/ position.direction = "SHORT"
                 /\ currentPrice >= position.stopLoss
        THEN <<position.id>> ELSE <<>>)

RECURSIVE Scheduled(_, _, _)
\* the callbacks the reactive block schedules for positions i, i + 1, ...
Scheduled(positions, currentPrice, i) ==
    IF i > Len(positions) THEN <<>>
    ELSE Triggers(positions[i], currentPrice)
           \o Scheduled(positions, currentPrice, i + 1)

\* the reactive block `$: { activePositions = activePositions.map(...) }`
ReactiveUpdate(pg) ==
    [pg EXCEPT
       !.activePositions =
          [i \in DOMAIN pg.activePositions |->
             [pg.activePositions[i] EXCEPT
                !.pnl = PositionPnl(pg.activePositions[i].direction,
                                    pg.price,
                                    pg.activePositions[i].entryPrice,
                                    pg.activePositions[i].size)]],
       !.timers = @ \o Scheduled(pg.activePositions, pg.price, 1)]

PageStep(pg) ==
    /\ Len(pg.timers) <= MaxTimers
    /\ page' = pg
    /\ UNCHANGED <<connection, connectedWallet, sessionWallet, entityPda,
                   competitionEntity, ledger, calls, storage, keysGenerated,
                   sessionCalls, chain, poll, codec, walletStore,
                   walletManager>>

\* ws.onmessage with a ticker of the selected symbol
PriceMessage(price) ==
    PageStep(ReactiveUpdate([page EXCEPT !.price = price]))

\* openPosition of the page at time t of Date.now(); size 0 is the input
\* the function rejects
OpenPagePosition(direction, size, takeProfit, stopLoss, t) ==
    /\ page.opened < MaxOpened
    /\ t >= page.now
    /\ IF size <= 0
       THEN PageStep([page EXCEPT !.now = t])
       ELSE PageStep(ReactiveUpdate(
              [page EXCEPT
                 !.now = t,
                 !.opened = @ + 1,
                 !.activePositions =
                    Append(@, [id |-> t, direction |-> direction,
                               entryPrice |-> page.price, size |-> size,
                               takeProfit |-> takeProfit,
                               stopLoss |-> stopLoss, pnl |-> Num(0),
                               n |-> page.opened + 1])]))

\* index of the entry 'YOU (Paper)' in list, 0 when there is none
PlayerIndex(list) ==
    IF \E i \in DOMAIN list : list[i].address = "YOU (Paper)"
    THEN CHOOSE i \in DOMAIN list :
           /\ list[i].address = "YOU (Paper)"
           /\ \A j \in 1..(i - 1) : list[j].address # "YOU (Paper)"
    ELSE 0

\* the pages closePosition(id) can leave when a position has the id
ClosedPages(pg, id) ==
    LET i == CHOOSE i \in DOMAIN pg.activePositions :
               /\ pg.activePositions[i].id = id
               /\ \A j \in 1..(i - 1) : pg.activePositions[j].id # id
        position == pg.activePositions[i]
        pnl == PositionPnl(position.direction, pg.price,
                           position.entryPrice, position.size)
        total == NumAdd(pg.totalPnL, pnl)
        trades == pg.totalTrades + 1
        player == PlayerIndex(pg.leaderboardData)
        entered == IF player # 0
                   THEN [pg.leaderboardData EXCEPT
                           ![player] = [@ EXCEPT !.pnl = total,
                                                 !.trades = trades]]
                   ELSE Append(pg.leaderboardData,
                               [rank |-> 0, address |-> "YOU (Paper)",
                                pnl |-> total, trades |-> trades])
    IN {ReactiveUpdate(
          [pg EXCEPT
             !.totalPnL = total,
             !.totalTrades = trades,
             !.winningTrades = IF NumGreater(pnl, Num(0)) THEN @ + 1 ELSE @,
             !.leaderboardData = Ranked(sorted),
             !.counted = Append(@, position.n),
             !.activePositions =
                SelectSeq(@, LAMBDA q : q.id # id)]) :
          sorted \in SortResults(entered)}

\* closePosition(id) of the page with the reactive block after it
ClosePagePosition(pg, id) ==
    IF \E i \in DOMAIN pg.activePositions : pg.activePositions[i].id = id
    THEN \E closed \in ClosedPages(pg, id) : PageStep(closed)
    ELSE PageStep(pg)

\* the user clicks CLOSE on the i-th position shown
CloseClicked(i) ==
    /\ i \in DOMAIN page.activePositions
    /\ ClosePagePosition(page, page.activePositions[i].id)

\* the oldest callback of setTimeout(() => closePosition(id), 0) runs
CloseTimerFires ==
    /\ page.timers # <<>>
    /\ ClosePagePosition([page EXCEPT !.timers = Tail(@)],
                         Head(page.timers))

InitPage ==
    /\ connection = MAGICBLOCK_RPC
    /\ connectedWallet = NoAdapter
    /\ sessionWallet = "none"
    /\ entityPda = "none"
    /\ competitionEntity = "none"
    /\ ledger = [exists |-> FALSE, tokenInBalance |-> 50000000,
                 tokenOutBalance |-> 500000000, totalPositions |-> 0]
    /\ calls = [c \in {} |-> IdleCall]
    /\ storage = "none"
    /\ keysGenerated = 0
    /\ sessionCalls = [k \in {} |-> IdleSessionCall]
    /\ chain = DefaultChain
    /\ poll = IdlePoll
    /\ codec = NoCodec
    /\ walletStore = InitialWalletStore
    /\ walletManager = NewWalletManager
    /\ page = NewPage

NextPage ==
    \/ \E price \in FeedPrices : PriceMessage(price)
    \/ \E direction \in {"LONG", "SHORT"}, size \in {0, 100},
          takeProfit \in TakeProfitInputs, stopLoss \in StopLossInputs,
          t \in 1..MaxOpened :
         OpenPagePosition(direction, size, takeProfit, stopLoss, t)
    \/ \E i \in 1..MaxOpened : CloseClicked(i)
    \/ CloseTimerFires

SpecPage == InitPage /\ [][NextPage]_vars

(***************************************************************************)
(* The client of lib/magicblock.ts: the direct fallback reads the balance  *)
(* through the connection field, which it switches for that one read       *)
(***************************************************************************)
\* a call of the client of lib/magicblock.ts; tempConnection is the local
\* of openDirectPosition
IdleCall_ts == [op |-> "none", pc |-> "idle", att |-> "none",
                tempConnection |-> "none", result |-> "none",
                trace |-> <<>>]

\* the call issues request ev on the connection conn and suspends; field
\* tells whether conn was read from the connection field of the client
IssueOn(r, ev, conn, field) ==
    [r EXCEPT !.pc = ev,
              !.trace = Append(@, [ev |-> ev, att |-> r.att, path |-> conn,
                                   res |-> "pending", field |-> field])]

Done_ts(r, result) == [r EXCEPT !.pc = "done", !.result = result]

\* openDirectPosition up to its first await: the account check on a new
\* connection to the base chain
openDirectPosition_ts(r) ==
    IssueOn([r EXCEPT !.att = "fallback"], "getAccountInfo", SOLANA_RPC,
            FALSE)

\* an error of the rollup attempt is caught by openPosition, which falls
\* back; an error of the fallback ends the call
Throw_ts(r) ==
    IF r.op = "openPosition" /\ r.att = "rollup"
    THEN openDirectPosition_ts(r)
    ELSE Done_ts(r, "error")

SwapStep(c, r) ==
    /\ calls' = [calls EXCEPT ![c] = r]
    /\ UNCHANGED <<connectedWallet, sessionWallet, entityPda,
                   competitionEntity, storage, keysGenerated, sessionCalls,
                   readVars, ledger>>

\* openPosition enters openMagicBlockPosition, whose first await is the
\* balance read of getUserAccountData on the connection field
openPosition_ts(c) ==
    /\ calls[c].pc = "idle"
    /\ SwapStep(c, IssueOn([IdleCall_ts EXCEPT !.op = "openPosition",
                                               !.att = "rollup"],
                           "getUserAccountData", connection, TRUE))
    /\ UNCHANGED connection

getBalance_ts(c) ==
    /\ calls[c].pc = "idle"
    /\ SwapStep(c, IssueOn([IdleCall_ts EXCEPT !.op = "getBalance",
                                               !.att = "read"],
                           "getBalance", connection, TRUE))
    /\ UNCHANGED connection

GetBalanceReturns_ts(c) ==
    /\ calls[c].pc = "getBalance"
    /\ \E res \in {"ok", "failed"} :
         SwapStep(c, Done_ts(Resolved(calls[c], res), "ok"))
    /\ UNCHANGED connection

\* the balance read resolves; in the fallback the next statement puts the
\* saved connection back, whether or not the read found the account
GetUserAccountDataReturns_ts(c) ==
    /\ calls[c].pc = "getUserAccountData"
    /\ \E res \in {"ok", "failed"} :
         LET r == Resolved(calls[c], res) IN
         IF r.att = "fallback"
         THEN /\ connection' = r.tempConnection
              /\ SwapStep(c, IF res = "ok"
                             THEN IssueOn(r, "getLatestBlockhash",
                                          SOLANA_RPC, FALSE)
                             ELSE Throw_ts(r))
         ELSE /\ UNCHANGED connection
              /\ SwapStep(c, IF res = "ok"
                             THEN IssueOn(r, "getAccountInfo", connection,
                                          TRUE)
                             ELSE Throw_ts(r))

\* the account check resolves; in the fallback the call then saves the
\* connection field, stores the base connection in it and starts the
\* balance read
GetAccountInfoReturns_ts(c) ==
    /\ calls[c].pc = "getAccountInfo"
    /\ \E res \in {"ok", "failed"} :
         LET r == Resolved(calls[c], res) IN
         IF r.att = "fallback" /\ res = "ok"
         THEN /\ connection' = SOLANA_RPC
              /\ SwapStep(c, IssueOn([r EXCEPT
                                         !.tempConnection = connection],
                                     "getUserAccountData", SOLANA_RPC,
                                     TRUE))
         ELSE /\ UNCHANGED connection
              /\ SwapStep(c, IF res = "ok"
                             THEN IssueOn(r, "getLatestBlockhash",
                                          connection, TRUE)
                             ELSE Throw_ts(r))

GetLatestBlockhashReturns_ts(c) ==
    /\ calls[c].pc = "getLatestBlockhash"
    /\ \E res \in {"ok", "failed"} :
         LET r == Resolved(calls[c], res) IN
         SwapStep(c, IF res = "ok"
                     THEN IssueOn(r, "signTransaction", "wallet", FALSE)
                     ELSE Throw_ts(r))
    /\ UNCHANGED connection

SignTransactionReturns_ts(c) ==
    /\ calls[c].pc = "signTransaction"
    /\ \E res \in {"ok", "failed"} :
         LET r == Resolved(calls[c], res) IN
         SwapStep(c, IF res = "ok"
                     THEN IF r.att = "fallback"
                          THEN IssueOn(r, "sendRawTransaction", SOLANA_RPC,
                                       FALSE)
                          ELSE IssueOn(r, "sendRawTransaction", connection,
                                       TRUE)
                     ELSE Throw_ts(r))
    /\ UNCHANGED connection

SendRawTransactionReturns_ts(c) ==
    /\ calls[c].pc = "sendRawTransaction"
    /\ \E res \in {"ok", "failed"} :
         LET r == Resolved(calls[c], res) IN
         SwapStep(c, IF res = "ok"
                     THEN IF r.att = "fallback"
                          THEN IssueOn(r, "confirmTransaction", SOLANA_RPC,
                                       FALSE)
                          ELSE IssueOn(r, "confirmTransaction", connection,
                                       TRUE)
                     ELSE Throw_ts(r))
    /\ UNCHANGED connection

ConfirmTransactionReturns_ts(c) ==
    /\ calls[c].pc = "confirmTransaction"
    /\ \E res \in {"ok", "failed"} :
         LET r == Resolved(calls[c], res) IN
         SwapStep(c, IF res = "ok" THEN Done_ts(r, "ok") ELSE Throw_ts(r))
    /\ UNCHANGED connection

InitSwap ==
    /\ connection = MAGICBLOCK_RPC
    /\ connectedWallet = [present |-> TRUE, connected |-> TRUE,
                          hasKey |-> TRUE, canSign |-> TRUE]
    /\ sessionWallet = "none"
    /\ entityPda = "none"
    /\ competitionEntity = "none"
    /\ ledger = [exists |-> TRUE, tokenInBalance |-> 50000000,
                 tokenOutBalance |-> 0, totalPositions |-> 0]
    /\ calls = [c \in {1, 2} |-> IdleCall_ts]
    /\ storage = "none"
    /\ keysGenerated = 0
    /\ sessionCalls = [k \in {} |-> IdleSessionCall]
    /\ chain = DefaultChain
    /\ poll = IdlePoll
    /\ codec = NoCodec
    /\ walletStore = InitialWalletStore
    /\ walletManager = NewWalletManager
    /\ page = NewPage

NextSwap ==
    \/ \E c \in DOMAIN calls : openPosition_ts(c)
    \/ \E c \in DOMAIN calls : getBalance_ts(c)
    \/ \E c \in DOMAIN calls : GetBalanceReturns_ts(c)
    \/ \E c \in DOMAIN calls : GetUserAccountDataReturns_ts(c)
    \/ \E c \in DOMAIN calls : GetAccountInfoReturns_ts(c)
    \/ \E c \in DOMAIN calls : GetLatestBlockhashReturns_ts(c)
    \/ \E c \in DOMAIN calls : SignTransactionReturns_ts(c)
    \/ \E c \in DOMAIN calls : SendRawTransactionReturns_ts(c)
    \/ \E c \in DOMAIN calls : ConfirmTransactionReturns_ts(c)

SpecSwap == InitSwap /\ [][NextSwap]_vars

TypeOK ==
    /\ connection \in {MAGICBLOCK_RPC, SOLANA_RPC}
    /\ connectedWallet \in AdapterInputs
    /\ ledger \in LedgerStates
    /\ \A c \in DOMAIN calls : calls[c].result \in {"none", "ok", "error"}

(***************************************************************************)
(* Properties.  The trace of a call lists the requests it issued, in       *)
(* order, each with the attempt that issued it, the endpoint it went to    *)
(* and its result.                                                         *)
(***************************************************************************)
Trace(c) == calls[c].trace

Ev(c, e) == {i \in DOMAIN Trace(c) : Trace(c)[i].ev = e}

SignRequests(c) == Ev(c, "signTransaction")

\* submissions: sendRawTransaction and the send of sendAndConfirmTransaction
Submissions(c) == Ev(c, "sendRawTransaction") \cup Ev(c, "sendAndConfirmTransaction")

IsOpen(c) == calls[c].op = "openPosition"

Done(c) == calls[c].pc = "done"

SigOfAttempt(att) ==
    CASE att = "rollup" -> "sig_rollup"
      [] att = "fallback" -> "sig_fallback"
      [] OTHER -> "sig_single"

\* the status query i of call c follows an 'already processed' submission
\* of the same attempt
AfterAlreadyProcessed(c, i) ==
    /\ i > 1
    /\ Trace(c)[i - 1].ev = "sendRawTransaction"
    /\ Trace(c)[i - 1].res = "alreadyProcessed"
    /\ Trace(c)[i - 1].att = Trace(c)[i].att

AmbiguousDuplicate(c, i) ==
    /\ Trace(c)[i].ev = "sendRawTransaction"
    /\ Trace(c)[i].res = "alreadyProcessed"
    /\ \/ /\ i < Len(Trace(c))
          /\ Trace(c)[i + 1].ev = "getSignatureStatus"
          /\ Trace(c)[i + 1].res \in {"none", "failed"}
       \/ /\ i < Len(Trace(c))
          /\ Trace(c)[i + 1].ev # "getSignatureStatus"
       \/ i = Len(Trace(c)) /\ Done(c)

\* C2: in openPosition, after a submission that failed with 'already
\* processed' and for which no confirmation status was obtained, the call
\* issues no further signature request and no further submission, and it
\* ends with the duplicate error.
C2_AmbiguousDuplicateNotRetried ==
    \A c \in DOMAIN calls :
      IsOpen(c) =>
        \A i \in DOMAIN Trace(c) :
          AmbiguousDuplicate(c, i) =>
            /\ \A j \in SignRequests(c) \cup Submissions(c) : j <= i
            /\ (Done(c) => /\ calls[c].result = "error"
                           /\ calls[c].err = "AlreadyProcessedError")

\* the rollup submission of call c failed with an error other than
\* 'already processed'
RollupSubmissionFailed(c) ==
    \E i \in Ev(c, "sendRawTransaction") :
      /\ Trace(c)[i].att = "rollup"
      /\ Trace(c)[i].res \in {"sendTransactionError", "networkError"}

FallbackStarts(c) ==
    {i \in Ev(c, "getAccountInfo") : Trace(c)[i].att = "fallback"}

FallbackSubmissions(c) ==
    {i \in Ev(c, "sendRawTransaction") : Trace(c)[i].att = "fallback"}

C4_SigningDeniedIsTerminal ==
    \A c \in DOMAIN calls :
      \A i \in SignRequests(c) :
        Trace(c)[i].res = "rejected" =>
          /\ \A j \in SignRequests(c) \cup Submissions(c) : j <= i
          /\ (Done(c) => /\ calls[c].result = "error"
                         /\ calls[c].err = "SigningDenied")

ValidationErrors == {"InsufficientBalance", "UnknownTradingPair",
                     "AccountNotInitialized"}

\* C5: a call of openPosition or executeSpotTrade in which validation
\* raised InsufficientBalance, UnknownTradingPair or account-not-
\* initialized issues no signature request and no submission afterwards.
C5_ValidationFailureNeverSubmitted ==
    \A c \in DOMAIN calls :
      (/\ calls[c].op \in {"openPosition", "executeSpotTrade"}
       /\ \/ calls[c].firstErr \in ValidationErrors
          \/ calls[c].err \in ValidationErrors) =>
          \A j \in SignRequests(c) \cup Submissions(c) :
            Trace(c)[j].att = "rollup"

\* C6: a call returns success after an 'already processed' rejection only
\* if it queried the signature status and a confirmation status existed.
C6_DuplicateSuccessNeedsStatus ==
    \A c \in DOMAIN calls :
      (/\ Done(c) /\ calls[c].result = "ok"
       /\ Trace(c) # <<>>
       /\ \E i \in Ev(c, "sendRawTransaction") :
            /\ Trace(c)[i].res = "alreadyProcessed"
            /\ Trace(c)[i].att = Trace(c)[Len(Trace(c))].att)
        => \E k \in Ev(c, "getSignatureStatus") : Trace(c)[k].res = "status"

\* C7: every operation other than openPosition issues at most one
\* signature request and at most one submission per call, all on one
\* execution path, and when the network rejected the submission the call
\* has ended with an error.
C7_OtherOperationsSingleShot ==
    \A c \in DOMAIN calls :
      (calls[c].op # "none" /\ ~IsOpen(c)) =>
        /\ Cardinality(SignRequests(c)) <= 1
        /\ Cardinality(Submissions(c)) <= 1
        /\ \A i \in DOMAIN Trace(c) : Trace(c)[i].att = "single"
        /\ \A i \in Submissions(c) :
             (Trace(c)[i].res \in {"alreadyProcessed", "sendTransactionError",
                                   "networkError", "sendFailed"}) =>
               (Done(c) /\ calls[c].result = "error")

\* C8: in openPosition every network request of the first attempt goes to
\* the rollup endpoint and every network request of the fallback attempt
\* goes to the base-chain endpoint.
C8_FallbackOnBaseChain ==
    \A c \in DOMAIN calls :
      IsOpen(c) =>
        \A i \in DOMAIN Trace(c) :
          Trace(c)[i].path # "none" =>
            /\ (Trace(c)[i].att = "rollup" => Trace(c)[i].path = MAGICBLOCK_RPC)
            /\ (Trace(c)[i].att = "fallback" => Trace(c)[i].path = SOLANA_RPC)

IsBuy(c) ==
    \/ calls[c].op = "buySpot"
    \/ calls[c].op = "executeSpotTrade" /\ calls[c].args.action = "BUY"

\* C9: a buy (buySpot, executeSpotTrade with BUY) issues a signature
\* request or a submission only after it read the account and found the
\* required quote amount not above tokenInBalance; when the read balance is
\* below the cost the call ends with InsufficientBalance.
C9_BuyRejectedWhenUnaffordable ==
    \A c \in DOMAIN calls :
      IsBuy(c) =>
        /\ ((SignRequests(c) \cup Submissions(c) # {}) =>
             /\ calls[c].tokenInBalance # -1
             /\ calls[c].tokenInBalance >= calls[c].args.size)
        /\ ((calls[c].tokenInBalance # -1
              /\ calls[c].tokenInBalance < calls[c].args.size) =>
             /\ Done(c)
             /\ calls[c].err = "InsufficientBalance")

\* the request after request i of call c, when the call got that far
FollowedBy(c, i, e) ==
    /\ i < Len(Trace(c))
    /\ Trace(c)[i + 1].ev = e

\* C10: an executeSpotTrade BUY whose cost equals the tokenInBalance it read
\* passes validation: it does not raise InsufficientBalance, it goes on to
\* the block-reference fetch, and from there to the signature request and
\* the submission when the fetch and the signer succeed.
C10_BuyBoundaryInclusive ==
    \A c \in DOMAIN calls :
      (/\ calls[c].op = "executeSpotTrade"
       /\ calls[c].args.action = "BUY"
       /\ calls[c].tokenInBalance = calls[c].args.size) =>
        /\ calls[c].err # "InsufficientBalance"
        /\ \A i \in Ev(c, "getUserAccountData") :
             (Trace(c)[i].res = "ok") => FollowedBy(c, i, "getLatestBlockhash")
        /\ \A i \in Ev(c, "getLatestBlockhash") :
             (Trace(c)[i].res = "ok" /\ calls[c].wallet.canSign)
               => FollowedBy(c, i, "signTransaction")
        /\ \A i \in SignRequests(c) :
             (Trace(c)[i].res = "signed") => FollowedBy(c, i, "sendRawTransaction")

C10_Witness ==
    \E c \in DOMAIN calls :
      /\ calls[c].op = "executeSpotTrade"
      /\ calls[c].args.action = "BUY"
      /\ calls[c].tokenInBalance = calls[c].args.size
      /\ \E i \in Ev(c, "sendRawTransaction") : Trace(c)[i].res = "accepted"

IsSell(c) ==
    \/ calls[c].op = "sellSpot"
    \/ calls[c].op = "executeSpotTrade" /\ calls[c].args.action = "SELL"

\* base-asset amount, in 1e-9 units, the operation of call c needs
RequiredTokenOut(c) ==
    IF calls[c].op = "sellSpot" THEN calls[c].args.size
    ELSE AmountTokenOut(calls[c].args.size, calls[c].args.price)

\* C11: a sell (sellSpot, executeSpotTrade with SELL) or a position open
\* issues a signature request or a submission only after it read the
\* account and found the required base-asset amount not above
\* tokenOutBalance; when the balance it read is below the required amount
\* the call has ended with InsufficientBalance.
C11_SellRejectedWhenUncovered ==
    \A c \in DOMAIN calls :
      (IsSell(c) \/ IsOpen(c)) =>
        /\ ((SignRequests(c) \cup Submissions(c) # {}) =>
             /\ calls[c].tokenOutBalance # -1
             /\ calls[c].tokenOutBalance >= RequiredTokenOut(c))
        /\ ((calls[c].tokenOutBalance # -1
              /\ calls[c].tokenOutBalance < RequiredTokenOut(c)) =>
             /\ Done(c)
             /\ calls[c].err = "InsufficientBalance")

\* the margin rule: balance >= required margin - 0.01
MarginRule(balance, size) == balance >= size - EpsilonScaled

\* the balance read of call c returns the account in this step
BalanceReadReturns(c) ==
    /\ IsOpen(c)
    /\ calls[c].pc = "getUserAccountData"
    /\ calls'[c] # calls[c]
    /\ calls'[c].trace[Len(calls[c].trace)].res = "ok"

\* the attempt of call c is left with InsufficientBalance in this step
MarginRejected(c) ==
    IF calls[c].att = "rollup" THEN calls'[c].att = "fallback"
    ELSE calls'[c].err = "InsufficientBalance"

\* C12: in every attempt of openPosition, rollup and fallback, the margin
\* check that follows the balance read accepts exactly when tokenInBalance
\* >= required margin - 0.01 and rejects with InsufficientBalance otherwise.
C12_OneMarginRule ==
    [][\A c \in DOMAIN calls :
         BalanceReadReturns(c) =>
           (MarginRule(ledger.tokenInBalance, calls[c].args.size)
              <=> ~MarginRejected(c))]_vars

\* C13: in every attempt of openPosition the request issued just before the
\* instruction is constructed (the block-reference fetch follows the
\* construction) is the account read of that attempt that supplied
\* totalPositions: no other account read lies between them.
C13_PositionIndexReadLast ==
    \A c \in DOMAIN calls :
      IsOpen(c) =>
        \A i \in Ev(c, "getLatestBlockhash") :
          /\ i > 1
          /\ Trace(c)[i - 1].ev = "getAccountInfo"
          /\ Trace(c)[i - 1].res = "ok"
          /\ Trace(c)[i - 1].att = Trace(c)[i].att

StateReads == {"getAccountInfo", "getUserAccountData", "getConfigInfo"}

\* requests that hand the transaction to a signer
Signings(c) == SignRequests(c) \cup Ev(c, "sendAndConfirmTransaction")

\* C14: in every operation and attempt, the request issued immediately
\* before the transaction is handed to the signer is a successful
\* getLatestBlockhash of the same attempt, made on the endpoint the
\* transaction is submitted to; every state read of the attempt precedes
\* that fetch.
C14_BlockReferenceFetchedBeforeSigning ==
    \A c \in DOMAIN calls :
      \A i \in Signings(c) :
        /\ i > 1
        /\ Trace(c)[i - 1].ev = "getLatestBlockhash"
        /\ Trace(c)[i - 1].res = "ok"
        /\ Trace(c)[i - 1].att = Trace(c)[i].att
        /\ \A j \in Submissions(c) :
             (Trace(c)[j].att = Trace(c)[i].att) =>
               Trace(c)[j].path = Trace(c)[i - 1].path
        /\ \A j \in DOMAIN Trace(c) :
             (Trace(c)[j].ev \in StateReads
                /\ Trace(c)[j].att = Trace(c)[i].att) => j < i - 1

C14_Witness ==
    \E c \in DOMAIN calls :
      /\ IsOpen(c) /\ Done(c) /\ calls[c].result = "ok"
      /\ \E i, j \in SignRequests(c) :
           /\ Trace(c)[i].att = "rollup" /\ Trace(c)[i].res = "signed"
           /\ Trace(c)[j].att = "fallback" /\ Trace(c)[j].res = "signed"
      /\ Cardinality(Ev(c, "getLatestBlockhash")) = 2

\* C15: a call whose submission returned a signature has returned success
\* only after confirmTransaction, given that signature and the block
\* reference of the transaction, completed with the transaction confirmed;
\* when the confirmation failed or reported the transaction as failed the
\* call has ended with an error.
C15_SuccessOnlyAfterConfirmation ==
    \A c \in DOMAIN calls :
      \A i \in Ev(c, "sendRawTransaction") :
        Trace(c)[i].res = "accepted" =>
          /\ ((Done(c) /\ calls[c].result = "ok") =>
               /\ FollowedBy(c, i, "confirmTransaction")
               /\ Trace(c)[i + 1].res = "confirmed"
               /\ ConfirmStrategy(calls[c]) = "signatureAndBlockhash")
          /\ ((FollowedBy(c, i, "confirmTransaction")
                /\ Trace(c)[i + 1].res \in {"failed", "resolvedErr"}) =>
               (Done(c) /\ calls[c].result = "error"))

\* C19: a call of initializeAccount whose existence read found the account
\* has ended as a success that is not a signature, after that one request:
\* no signature request, no submission, nothing accepted by the ledger.
C19_InitializeExistingIsNoOp ==
    \A c \in DOMAIN calls :
      (/\ calls[c].op = "initializeAccount"
       /\ Trace(c) # <<>>
       /\ Trace(c)[1].res = "ok") =>
        /\ Len(Trace(c)) = 1
        /\ Done(c)
        /\ calls[c].result = "ok"
        /\ calls[c].err = "none"
        /\ calls[c].ret = "account_already_exists"
        /\ SignRequests(c) \cup Submissions(c) = {}
        /\ calls[c].accepted = 0

C19_Witness ==
    \E c \in DOMAIN calls :
      /\ calls[c].op = "initializeAccount"
      /\ Done(c)
      /\ calls[c].ret = "account_already_exists"
      /\ ledger.exists

\* C20: a call of getUserAccountData or checkAccountInitialized that made
\* its network read has reported 'not initialized' (null, false) only when
\* the network answered that the account does not exist, and has ended with
\* an error when the read failed.
C20_AbsentDistinctFromFailure ==
    \A c \in DOMAIN calls :
      (/\ calls[c].op \in {"getUserAccountData", "checkAccountInitialized"}
       /\ Done(c)
       /\ Trace(c)[1].path # "none") =>
        /\ (calls[c].ret \in {"null", "false"} => Trace(c)[1].res = "null")
        /\ (Trace(c)[1].res = "failed" => calls[c].result = "error")

\* the position address call c derived: owner, pair and position index
PositionAddress(c) ==
    <<calls[c].wallet.publicKey, calls[c].args.pair, calls[c].tx.positionId>>

\* call c has constructed its instruction in the current attempt
Derived(c) == IsOpen(c) /\ calls[c].tx.positionId # -1

\* C16: nothing holds back a caller while another call is in flight: a
\* caller whose previous call has ended can start openPosition in every
\* state; and two calls for the same owner and pair that read the same
\* totalPositions derive the same position address.
C16_NoLockSameAddress ==
    /\ \A c \in DOMAIN calls :
         CanStart(c) =>
           ENABLED openPosition(c, "SOL", ConcurrentOpenInput[1],
                                ConcurrentOpenInput[2], ConcurrentOpenInput[3],
                                ConcurrentOpenInput[4], ConcurrentOpenInput[5])
    /\ \A c1, c2 \in DOMAIN calls :
         (/\ Derived(c1) /\ Derived(c2)
          /\ calls[c1].wallet.publicKey = calls[c2].wallet.publicKey
          /\ calls[c1].args.pair = calls[c2].args.pair
          /\ calls[c1].totalPositions = calls[c2].totalPositions)
           => PositionAddress(c1) = PositionAddress(c2)

\* two calls in flight hold the same address and neither transaction has
\* been accepted
C16_Witness ==
    /\ Derived(1) /\ Derived(2)
    /\ calls[1].pc = "sendRawTransaction"
    /\ calls[2].pc = "sendRawTransaction"
    /\ calls[1].att = "rollup" /\ calls[2].att = "rollup"
    /\ PositionAddress(1) = PositionAddress(2)
    /\ calls[1].accepted = 0 /\ calls[2].accepted = 0
    /\ ledger.totalPositions = calls[1].tx.positionId

ExternalUsable ==
    connectedWallet.present /\ connectedWallet.connected /\ connectedWallet.hasKey

\* C17: getCurrentWallet returns the external wallet whenever an adapter is
\* connected and has a public key, whether or not a session key is loaded;
\* otherwise the session key when one is loaded; otherwise no wallet; the
\* key that signs is the returned public key (or signing is unavailable).
C17_ExternalFirst ==
    /\ (ExternalUsable =>
         /\ getCurrentWallet.src = "connected"
         /\ getCurrentWallet.publicKey = "extKey")
    /\ ((~ExternalUsable /\ sessionWallet # "none") =>
         /\ getCurrentWallet.src = "session"
         /\ getCurrentWallet.publicKey = sessionWallet
         /\ getCurrentWallet.signer = sessionWallet)
    /\ ((~ExternalUsable /\ sessionWallet = "none") =>
         getCurrentWallet = NoWallet)
    /\ getCurrentWallet.signer \in {"none", getCurrentWallet.publicKey}

C17_Witness ==
    /\ ExternalUsable
    /\ sessionWallet # "none"
    /\ getCurrentWallet.src = "connected"
    /\ getCurrentWallet.signer = "extKey"

\* C18: initializeSessionWallet never replaces a stored key that loads: it
\* leaves storage and the count of generated keys as they are; over all
\* calls, interleaved ones included, at most one key is generated, the
\* client's session key is the stored one, and every call that returned
\* returned the stored key.
C18_SessionKeyGeneratedOnce ==
    /\ [](/\ keysGenerated <= 1
          /\ (sessionWallet # "none" => sessionWallet = storage)
          /\ \A k \in DOMAIN sessionCalls :
               sessionCalls[k].pc = "done" => sessionCalls[k].ret = storage)
    /\ [][Loadable(storage) =>
            (storage' = storage /\ keysGenerated' = keysGenerated)]_vars

\* the second call ran to its end while the first was suspended, after the
\* first generated the key
C18_Witness ==
    /\ sessionCalls[1].pc = "initializeEntity"
    /\ sessionCalls[2].pc = "done"
    /\ keysGenerated = 1
    /\ sessionCalls[2].ret = storage

\* C27: while the signature request of a call is pending, that call has
\* made no sendRawTransaction call and no transaction of that call has been
\* accepted by the ledger.
C27_PendingSignatureNoEffect ==
    \A c \in DOMAIN calls :
      calls[c].pc = "signTransaction" =>
        /\ Ev(c, "sendRawTransaction") = {}
        /\ calls[c].accepted = 0

\* request i of call c is the last request of its attempt
LastOfAttempt(c, i) ==
    \A j \in DOMAIN Trace(c) : Trace(c)[j].att = Trace(c)[i].att => j <= i

\* request i of call c directly follows a request e of the same attempt
\* that resolved with res
Follows(c, i, e, res) ==
    /\ i > 1
    /\ Trace(c)[i - 1].ev = e
    /\ Trace(c)[i - 1].res = res
    /\ Trace(c)[i - 1].att = Trace(c)[i].att

\* C30: in every attempt a signature request directly follows the block-
\* reference fetch that completes the transaction, sendRawTransaction
\* directly follows a signature request of the same attempt that returned
\* the signed transaction, confirmTransaction directly follows a submission
\* of the same attempt that returned a signature, the status query directly
\* follows an 'already processed' submission of the same attempt; a
\* confirmation, a status query and a rejected submission are the last
\* request of their attempt.
C30_AttemptStateOrder ==
    \A c \in DOMAIN calls :
      \A i \in DOMAIN Trace(c) :
        /\ (Trace(c)[i].ev = "signTransaction" =>
              Follows(c, i, "getLatestBlockhash", "ok"))
        /\ (Trace(c)[i].ev = "sendRawTransaction" =>
              Follows(c, i, "signTransaction", "signed"))
        /\ (Trace(c)[i].ev = "confirmTransaction" =>
              /\ Follows(c, i, "sendRawTransaction", "accepted")
              /\ LastOfAttempt(c, i))
        /\ (Trace(c)[i].ev = "getSignatureStatus" =>
              /\ Follows(c, i, "sendRawTransaction", "alreadyProcessed")
              /\ LastOfAttempt(c, i))
        /\ ((Trace(c)[i].ev = "sendRawTransaction"
               /\ Trace(c)[i].res \in {"sendTransactionError", "networkError"})
              => LastOfAttempt(c, i))
        /\ ((Trace(c)[i].ev = "sendRawTransaction"
               /\ Trace(c)[i].res = "alreadyProcessed"
               /\ ~LastOfAttempt(c, i))
              => FollowedBy(c, i, "getSignatureStatus"))
        /\ ((Trace(c)[i].ev = "sendRawTransaction"
               /\ Trace(c)[i].res = "accepted")
              => FollowedBy(c, i, "confirmTransaction"))

\* a call went through Building, Signed, Submitted and Rejected in the
\* rollup attempt and through all of them to Confirmed in the fallback
C30_Witness ==
    \E c \in DOMAIN calls :
      /\ IsOpen(c) /\ Done(c)
      /\ \E i \in Ev(c, "sendRawTransaction") :
           Trace(c)[i].att = "rollup" /\ Trace(c)[i].res = "sendTransactionError"
      /\ \E j \in Ev(c, "confirmTransaction") :
           Trace(c)[j].att = "fallback" /\ Trace(c)[j].res = "confirmed"

(***************************************************************************)
(* Read operations and results                                             *)
(***************************************************************************)
FetchOps == {"fetchPositions", "fetchLeaderboard", "fetchCompetitionData"}

MutatingOps ==
    {"openPosition", "executeSpotTrade", "buySpot", "sellSpot",
     "closeDirectPosition", "initializeAccount", "closePosition",
     "joinCompetition", "settleCompetition"}

\* some network call of call c failed
SomeCallFailed(c) == \E i \in DOMAIN Trace(c) : Trace(c)[i].res = "failed"

\* the value call c returned is the signature of a transaction it submitted
ReturnsSubmittedSignature(c) ==
    \E i \in Submissions(c) : calls[c].ret = SigOfAttempt(Trace(c)[i].att)

\* C22: a fetch operation one of whose network calls failed ends with an
\* error, not with a list or null, and whatever a mutating operation returns
\* as success is the signature of a transaction the call submitted
C22_NoSuccessShapedFailure ==
    \A c \in DOMAIN calls :
      Done(c) =>
        /\ (calls[c].op \in FetchOps /\ SomeCallFailed(c)) =>
             calls[c].result = "error"
        /\ (calls[c].op \in MutatingOps /\ calls[c].result = "ok") =>
             ReturnsSubmittedSignature(c)

\* requests of call c that leave the client: everything but the signature
\* request and the balance read that returned before its network call
NetworkCalls(c) ==
    {i \in DOMAIN Trace(c) :
       /\ Trace(c)[i].ev # "signTransaction"
       /\ ~(Trace(c)[i].ev = "getUserAccountData" /\ Trace(c)[i].path = "none")}

\* call record r failed in its synchronous prefix, before any request
FailedLocally(r) == r.pc = "done" /\ r.result = "error" /\ r.trace = <<>>

\* call record r returned list (or map) l in its synchronous prefix
ReturnedLocally(r, v, l) ==
    /\ r.pc = "done" /\ r.result = "ok" /\ r.trace = <<>>
    /\ r.ret = v /\ r.list = l

\* the step starts an operation as call c
Starts(c) == CanStart(c) /\ calls'[c] # calls[c]

\* the entity addresses closePosition / joinCompetition / settleCompetition
\* need are not all there
EntityMissing(op) ==
    \/ competitionEntity = "none"
    \/ (op # "settleCompetition" /\ entityPda = "none")

\* C29: a mutating operation started with no current wallet, and a Bolt
\* operation started before the entity or competition address is set, ends
\* in its first step with an error, having made no network call and no
\* signature request and leaving every client field as it was; a read
\* operation started with no wallet returns its empty value without a
\* network call
C29_PreconditionFailuresLocal ==
    /\ [](\A c \in DOMAIN calls :
            (calls[c].op = "getUserAccountData" /\ calls[c].wallet = NoWallet) =>
               /\ NetworkCalls(c) = {}
               /\ Done(c) => (calls[c].result = "ok" /\ calls[c].ret = "null"))
    /\ [][\A c \in DOMAIN calls :
            Starts(c) =>
              /\ clientVars' = clientVars /\ ledger' = ledger
              /\ (calls'[c].op \in MutatingOps /\ getCurrentWallet = NoWallet) =>
                   FailedLocally(calls'[c])
              /\ (calls'[c].op \in BoltOps /\ EntityMissing(calls'[c].op)) =>
                   FailedLocally(calls'[c])
              /\ (calls'[c].op \in {"getAccountStatus", "fetchPositions"}
                    /\ getCurrentWallet = NoWallet) =>
                   ReturnedLocally(calls'[c], "list", {})
              /\ (calls'[c].op = "getBalance" /\ getCurrentWallet = NoWallet) =>
                   ReturnedLocally(calls'[c], "0", {})]_vars

\* a Bolt operation started by a wallet whose entity is not initialized has
\* failed without a request
C29_Witness ==
    \E c \in DOMAIN calls :
      /\ calls[c].op \in BoltOps
      /\ calls[c].wallet # NoWallet
      /\ EntityMissing(calls[c].op)
      /\ FailedLocally(calls[c])

\* C21: a reader that was handed account bytes shorter than the layout of
\* the record ends with an error; it returns neither a record nor 'absent'
C21_ShortBufferSurfaced ==
    \A c \in DOMAIN calls :
      (Done(c) /\ \E i \in DOMAIN Trace(c) : Trace(c)[i].res = "short") =>
        calls[c].result = "error"

\* the scan of the trading program by call c succeeded
ScanSucceeded(c) ==
    \E i \in Ev(c, "getProgramAccounts") :
      Trace(c)[i].att = "single" /\ Trace(c)[i].res = "ok"

\* accounts of the trading program that are active positions of owner
ActivePositionsOf(owner) ==
    {a \in chain.accounts : /\ a.len = PositionAccountSize
                            /\ a.owner = owner
                            /\ a.status = 0}

\* C23: the direct-position entries fetchPositions returns after a scan
\* that succeeded are those of exactly the accounts that have the length of
\* a position record, the wallet of the call as owner and status Active;
\* without the scan there are none
C23_FetchPositionsFilter ==
    \A c \in DOMAIN calls :
      (Done(c) /\ calls[c].op = "fetchPositions") =>
        {e.pubkey : e \in {x \in calls[c].list : x.type = "direct"}}
          = IF ScanSucceeded(c)
            THEN {a.id : a \in ActivePositionsOf(calls[c].wallet.publicKey)}
            ELSE {}

\* a scan over a table with an active and a closed position of the wallet,
\* a position of another owner and records of other lengths returned
C23_Witness ==
    \E c \in DOMAIN calls :
      /\ Done(c) /\ calls[c].op = "fetchPositions"
      /\ ScanSucceeded(c)
      /\ calls[c].wallet.publicKey = "extKey"
      /\ chain.accounts = ProgramAccountInputs
      /\ [type |-> "direct", pubkey |-> "p1"] \in calls[c].list

CodecDone(kind) == codec.phase = "done" /\ codec.kind = kind

\* C24: a u64 account field is decoded to exactly the value its eight bytes
\* store, from 0 to 2^64 - 1, and writing a u64 and reading it back gives
\* the same value
C24_U64DecodedExactly ==
    CodecDone("userAccount") =>
      /\ readBigUInt64LE(writeBigUInt64LE(readBigUInt64LE(codec.args)))
           = readBigUInt64LE(codec.args)
      /\ MathFloor(codec.out) = readBigUInt64LE(codec.args)

\* C25: each of the three derivations gives different seeds to inputs that
\* differ in a component it takes, and the same seeds to the same inputs
C25_SeedsInjective ==
    CodecDone("seeds") =>
      LET a == codec.args[1]
          b == codec.args[2]
      IN /\ (codec.out[1].user = codec.out[2].user)
              <=> (a.owner = b.owner /\ a.pairIndex = b.pairIndex)
         /\ (codec.out[1].position = codec.out[2].position)
              <=> (a.owner = b.owner /\ a.positionId = b.positionId)
         /\ (codec.out[1].open = codec.out[2].open) <=> (a = b)

\* price * 1e6 for a price of `cents` hundredths
ScaledPrice(cents) == BitsOf(cents * 10000)

\* the payload C26 describes: the selector, then floor(size / price * 1e9),
\* floor(price * 1e6) and the two limits times 1e6, each as eight
\* little-endian bytes
ExpectedInstructionData(a) ==
    discriminator(IF a.direction = "LONG" THEN "global:open_long_position"
                  ELSE "global:open_short_position")
      \o writeBigUInt64LE(BigDivMod(BigMul(BitsOf(a.size), 1000000000),
                                    BitsOf(a.price)).q)
      \o writeBigUInt64LE(ScaledPrice(a.price))
      \o writeBigUInt64LE(ScaledPrice(a.takeProfit))
      \o writeBigUInt64LE(ScaledPrice(a.stopLoss))

\* C26: the payload of openPosition has 40 bytes: the selector of the
\* direction, then amountTokenOut = floor(size / price * 1e9), priceScaled =
\* floor(price * 1e6), take-profit and stop-loss times 1e6, 0 when unset
C26_OpenPayloadEncoding ==
    CodecDone("openPosition") =>
      /\ Len(codec.out) = 40
      /\ codec.out = ExpectedInstructionData(codec.args)

(***************************************************************************)
(* Spot instructions                                                       *)
(***************************************************************************)
SpotSelectors == {"global:buy", "global:sell"}

\* the payload each of the two builders of a spot instruction makes of the
\* inputs a
SpotPayloads(a) ==
    {SpotTradePayload(a),
     IF a.action = "BUY" THEN BuySpotPayload(a) ELSE SellSpotPayload(a)}

\* C32: a 'global:buy' or 'global:sell' instruction a call has built is the
\* one payload both builders of that method make of the call's inputs: the
\* same amount at offset 8, in the same unit and scale
C32_SpotPayloadsAgree ==
    \A c \in DOMAIN calls :
        calls[c].tx.payload.selector \in SpotSelectors
          => SpotPayloads(calls[c].args) = {calls[c].tx.payload}

(***************************************************************************)
(* Accepted transactions of one call                                       *)
(***************************************************************************)
\* C33: the network accepts at most one open-position transaction of a
\* single openPosition call: when the transaction of the first attempt was
\* accepted, the fallback attempt submits none
C33_OneAcceptedTransactionPerCall ==
    \A c \in DOMAIN calls :
        IsOpen(c) =>
          /\ calls[c].accepted <= 1
          /\ \A i, j \in DOMAIN Trace(c) :
                 ( /\ i < j
                   /\ Trace(c)[i].ev = "sendRawTransaction"
                   /\ Trace(c)[i].res = "accepted"
                   /\ Trace(c)[i].att = "rollup" )
                   => ~ ( /\ Trace(c)[j].ev = "sendRawTransaction"
                          /\ Trace(c)[j].att = "fallback" )

(***************************************************************************)
(* Signer of the Bolt operations                                           *)
(***************************************************************************)
SubmitRequests == {"sendRawTransaction", "sendAndConfirmTransaction"}

\* C34: a transaction closePosition, joinCompetition or settleCompetition
\* has submitted is signed by the key that is its fee payer and authority
C34_SignedByFeePayer ==
    \A c \in DOMAIN calls :
        ( /\ calls[c].op \in BoltOps
          /\ \E i \in DOMAIN Trace(c) : Trace(c)[i].ev \in SubmitRequests )
          => calls[c].tx.signedBy = calls[c].tx.feePayer

(***************************************************************************)
(* Cached entity address                                                   *)
(***************************************************************************)
\* C35: when the cached entity address is set and getCurrentWallet returns
\* a wallet, the address is the one derived from that wallet's public key
C35_EntityOfCurrentWallet ==
    (entityPda # "none" /\ getCurrentWallet # NoWallet)
      => entityPda = FindEntityPda(getCurrentWallet)

(***************************************************************************)
(* Wallet store                                                            *)
(***************************************************************************)
SelectedConnected ==
    /\ walletManager.selectedWallet # "none"
    /\ walletManager.connected[walletManager.selectedWallet]

\* C36: the store says connected exactly when the wallet the manager has
\* selected is connected, and a store that is not connected holds no
\* adapter, no wallet and no public key
C36_StoreFollowsSelectedWallet ==
    /\ walletStore.connected <=> SelectedConnected
    /\ ~walletStore.connected
         => /\ walletStore.adapter = "none"
            /\ walletStore.wallet = "none"
            /\ walletStore.publicKey = "none"

ConnectInFlight ==
    \E k \in DOMAIN walletManager.calls :
        /\ walletManager.calls[k].op = "connect"
        /\ walletManager.calls[k].pc = "adapter.connect"

\* C37: the connecting flag is true only while a connect call is in flight
C37_ConnectingIsTransient == walletStore.connecting => ConnectInFlight

(***************************************************************************)
(* Dashboard                                                               *)
(***************************************************************************)
ActiveOrdinals == {page.activePositions[i].n : i \in DOMAIN page.activePositions}

CountedOrdinals == {page.counted[i] : i \in DOMAIN page.counted}

LeaderboardSorted ==
    \A i, j \in DOMAIN page.leaderboardData :
        i < j => NumAtLeast(page.leaderboardData[i].pnl,
                            page.leaderboardData[j].pnl)

\* C38: no position is counted twice; a position that was opened is either
\* active or was counted once in totalTrades; winningTrades <= totalTrades;
\* after a close the leaderboard holds one 'YOU (Paper)' entry, is sorted by
\* P&L descending and is ranked 1..n
C38_PositionsClosedOnce ==
    /\ \A i, j \in DOMAIN page.counted :
           page.counted[i] = page.counted[j] => i = j
    /\ page.totalTrades = Len(page.counted)
    /\ \A n \in 1..page.opened :
           (n \in ActiveOrdinals) # (n \in CountedOrdinals)
    /\ page.winningTrades <= page.totalTrades
    /\ page.totalTrades > 0 =>
         /\ Cardinality({i \in DOMAIN page.leaderboardData :
                           page.leaderboardData[i].address = "YOU (Paper)"})
              = 1
         /\ LeaderboardSorted
         /\ \A i \in DOMAIN page.leaderboardData :
                page.leaderboardData[i].rank = i

\* the calls of the client of lib/magicblock.ts have all returned
AllReturned_ts == \A c \in DOMAIN calls : calls[c].pc \in {"idle", "done"}

\* requests sent through the connection field, other than the balance read
\* of a fallback
FieldRequests_ts ==
    {e \in UNION {{calls[c].trace[i] : i \in DOMAIN calls[c].trace} :
                  c \in DOMAIN calls} :
       e.field /\ e.att # "fallback"}

\* once every call has returned, the connection field is the rollup
\* connection again
ConnectionRestored_ts == AllReturned_ts => connection = MAGICBLOCK_RPC

\* C31: the connection of the client is not shared mutable state: once every
\* call has returned the connection field is the rollup connection the client
\* was constructed with, and no request other than the balance read of a
\* fallback goes out through a connection the fallback switched in
C31_ConnectionNotShared ==
    /\ ConnectionRestored_ts
    /\ \A e \in FieldRequests_ts : e.path = MAGICBLOCK_RPC

====
